---- MODULE Spec2Model ----
(***************************************************************************)
(* The capability gateway of .vas-ai-hospital (ai_api.py): the capability  *)
(* registry, the /invoke dispatch coroutine, the Redis-backed audit logger *)
(* and the capability handlers, together with the earlier gateway          *)
(* (services_backup/.../ai_api.py, negotiate_core), the secure browser     *)
(* (vas_secure_browser.py: tabs, session timeout, domain whitelist) and    *)
(* the living organism (zfp_living_oranism.py: body integrity).            *)
(*                                                                         *)
(* A Python dict is a function from its keys to its values (a record);     *)
(* an Optional value is the empty set (None) or a singleton.  Each         *)
(* coroutine step between two suspension points (the awaits on Redis) is   *)
(* one atomic action, as under asyncio's cooperative scheduling.           *)
(***************************************************************************)
EXTENDS Integers, Sequences, FiniteSets, TLC

\* ------------------------------------------------------------------ bounds
\* Number of /invoke requests accepted in a behaviour (each gets a slot).
MaxInvocations == 2
\* Largest reading of the wall clock (SpecTimed).
MaxClock == 1

\* Number of explicit register calls in a behaviour (both gateways together).
MaxRegistrations == 2
\* Number of /negotiate requests in a behaviour.
MaxNegotiations == 2
\* Number of rows the user's tab and whitelist actions may bring the browser's
\* audit table to.
MaxBrowserEvents == 8
\* Minutes of a browser session.
MaxBrowserClock == 32
\* Number of edits of the whitelist in a browser session.
MaxWhitelistEdits == 3
\* Number of incidents logged before the organism's last examination.
MaxIncidents == 2
\* Number of requests the interceptor counts.
MaxRequests == 2

\* ------------------------------------------------------------ basic values
None == {}
Some(v) == {v}
IsSet(o) == o /= {}
TheValue(o) == CHOOSE v \in o : TRUE

EmptyDict == [k \in {} |-> ""]
\* dict.get(k): None when the key is missing
DictGet(d, k) == IF k \in DOMAIN d THEN Some(d[k]) ELSE None
\* dict.get(k, default)
DictGetDefault(d, k, default) == IF k \in DOMAIN d THEN d[k] ELSE default

\* Outcome of running a handler body: a returned dict or a raised exception
\* (str(e) is the message the dispatcher reports).
Return(v) == [kind |-> "return", result |-> v]
Raise(type, msg) == [kind |-> "raise", exc |-> type, error |-> msg]

\* ------------------------------------------------------------ configuration
\* 30 days, the expiry of a secondary-index key, in seconds
AuditTTL == 86400 * 30
\* config.ENCRYPTION_KEY of this process
EncryptionKey == "K1"

\* --------------------------------------------------- encryption (Pillar 4)
\* Fernet is authenticated encryption: a token is version || payload || HMAC
\* under the key; decrypt accepts exactly the tokens whose HMAC verifies.
Hmac(key, payload) == "<" \o key \o "#" \o payload \o ">"
FernetToken(key, payload) == "80|" \o payload \o "|" \o Hmac(key, payload)

\* EncryptionService.encrypt
Encrypt(plaintext) == FernetToken(EncryptionKey, plaintext)

\* EncryptionService.decrypt: the payload, or InvalidToken (str(e) = "")
Decrypt(ciphertext) ==
    LET payloads == {SubSeq(ciphertext, 4, 3 + n) : n \in 0..(Len(ciphertext) - 3)}
        ok == {p \in payloads : FernetToken(EncryptionKey, p) = ciphertext}
    IN  IF ok /= {} THEN Return(CHOOSE p \in ok : TRUE)
        ELSE Raise("InvalidToken", "")

\* Variant of FalsyStr that tests only for a missing value
FalsyStr_OnlyAbsent(o) == o = None

\* `not x` for an optional string
FalsyStr(o) == o = None \/ o = Some("")

handle_data_encrypt(terms) ==
    LET plaintext == DictGet(terms, "plaintext")
    IN  IF FalsyStr(plaintext)
        THEN Raise("ValueError", "Missing 'plaintext' in terms")
        ELSE Return([ciphertext |-> Encrypt(TheValue(plaintext))])

handle_data_decrypt(terms) ==
    LET ciphertext == DictGet(terms, "ciphertext")
    IN  IF FalsyStr(ciphertext)
        THEN Raise("ValueError", "Missing 'ciphertext' in terms")
        ELSE LET d == Decrypt(TheValue(ciphertext))
             IN  IF d.kind = "raise" THEN d
                 ELSE Return([plaintext |-> d.result])

\* ------------------------------------------------ clinical / ML (Pillar 13)
\* temperature and wbc_count are in tenths (98.6 is 986, 7.5 is 75), heart
\* rate and blood pressure are whole numbers; scores are in tenths (0.3 is
\* 3), confidence in hundredths.
predict_sepsis_risk(vitals) ==
    LET temp == DictGetDefault(vitals, "temperature", 986)
        hr == DictGetDefault(vitals, "heart_rate", 80)
        bp_sys == DictGetDefault(vitals, "bp_systolic", 120)
        wbc == DictGetDefault(vitals, "wbc_count", 75)
        risk_score == (IF temp > 1004 \/ temp < 968 THEN 3 ELSE 0)
                      + (IF hr > 90 THEN 2 ELSE 0)
                      + (IF bp_sys < 100 THEN 3 ELSE 0)
                      + (IF wbc > 120 \/ wbc < 40 THEN 2 ELSE 0)
        risk_level == IF risk_score > 6 THEN "HIGH"
                      ELSE IF risk_score > 3 THEN "MEDIUM" ELSE "LOW"
        recommendation ==
            IF risk_level = "HIGH"
            THEN "INITIATE SEPSIS PROTOCOL - Alert physician immediately"
            ELSE IF risk_level = "MEDIUM"
            THEN "Increase monitoring frequency, consider blood cultures"
            ELSE "Continue monitoring"
    IN  [risk_score |-> risk_score, risk_level |-> risk_level,
         recommendation |-> recommendation, confidence |-> 85]

handle_clinical_sepsis_risk(terms) ==
    LET vitals == DictGet(terms, "vitals")
    IN  IF vitals = None \/ vitals = Some(EmptyDict)
        THEN Raise("ValueError", "Missing 'vitals' in terms")
        ELSE Return(predict_sepsis_risk(TheValue(vitals)))

UpperLetters == "ABCDEFGHIJKLMNOPQRSTUVWXYZ"
LowerLetters == "abcdefghijklmnopqrstuvwxyz"
LowerChar(c) ==
    LET at == {i \in 1..26 : SubSeq(UpperLetters, i, i) = c}
    IN  IF at = {} THEN c
        ELSE LET i == CHOOSE j \in at : TRUE IN SubSeq(LowerLetters, i, i)
\* str.lower
RECURSIVE Lower(_)
Lower(s) == IF Len(s) = 0 THEN ""
            ELSE LowerChar(SubSeq(s, 1, 1)) \o Lower(SubSeq(s, 2, Len(s)))
\* ' '.join(names)
RECURSIVE JoinSpace(_)
JoinSpace(names) ==
    IF Len(names) = 0 THEN ""
    ELSE IF Len(names) = 1 THEN names[1]
    ELSE names[1] \o " " \o JoinSpace(Tail(names))
\* sub in s
Contains(s, sub) ==
    \E i \in 1..(Len(s) - Len(sub) + 1) : SubSeq(s, i, i + Len(sub) - 1) = sub

dangerous_combos ==
    << [drugs |-> <<"warfarin", "aspirin">>, warning |-> "Increased bleeding risk"],
       [drugs |-> <<"metformin", "iodinated_contrast">>, warning |-> "Lactic acidosis risk"],
       [drugs |-> <<"ssri", "tramadol">>, warning |-> "Serotonin syndrome risk"] >>

check_drug_interactions(medications) ==
    LET med_names == [i \in 1..Len(medications) |-> Lower(medications[i])]
        joined == JoinSpace(med_names)
        hit(c) == \A k \in 1..Len(c.drugs) : Contains(joined, c.drugs[k])
        found == SelectSeq(dangerous_combos, hit)
        interactions == [i \in 1..Len(found) |->
                            [drugs |-> found[i].drugs, severity |-> "HIGH",
                             warning |-> found[i].warning]]
    IN  [has_interactions |-> Len(interactions) > 0,
         interactions |-> interactions,
         checked_medications |-> medications]

handle_clinical_drug_interaction(terms) ==
    LET medications == DictGet(terms, "medications")
    IN  IF medications = None \/ medications = Some(<<>>)
        THEN Raise("ValueError", "Missing 'medications' in terms")
        ELSE Return(check_drug_interactions(TheValue(medications)))

\* ------------------------------------------------- analytics (Pillar 5)
handle_analytics_readmission_risk(terms) ==
    LET patient_data == DictGetDefault(terms, "patient_data", EmptyDict)
        older == DictGetDefault(patient_data, "age", 0) > 65
        chronic == DictGetDefault(patient_data, "chronic_conditions", 0) > 2
        recent == DictGetDefault(patient_data, "previous_admissions_30d", 0) > 0
        risk_score == (IF older THEN 3 ELSE 0) + (IF chronic THEN 4 ELSE 0)
                      + (IF recent THEN 3 ELSE 0)
        risk_factors == (IF older THEN <<"Age > 65">> ELSE <<>>)
                        \o (IF chronic THEN <<"Multiple chronic conditions">> ELSE <<>>)
                        \o (IF recent THEN <<"Recent admission">> ELSE <<>>)
    IN  Return([risk_score |-> IF risk_score < 10 THEN risk_score ELSE 10,
                risk_level |-> IF risk_score > 6 THEN "HIGH"
                               ELSE IF risk_score > 3 THEN "MEDIUM" ELSE "LOW",
                risk_factors |-> risk_factors,
                recommendation |-> IF risk_score > 6
                                   THEN "Consider discharge planning intervention"
                                   ELSE "Standard discharge protocol"])

\* ----------------------------------------------------- capability registry
\* CapabilityRegistry(): two dicts keyed by capability name
EmptyRegistry == [handlers |-> EmptyDict, metadata |-> EmptyDict]

\* d[k] = v
DictSet(d, k, v) == [x \in DOMAIN d \cup {k} |-> IF x = k THEN v ELSE d[x]]

\* Variant of register that writes the handler map only
register_HandlersOnly(reg, name, handler, pillar, description, at) ==
    [handlers |-> DictSet(reg.handlers, name, handler),
     metadata |-> reg.metadata]

\* Variant of register that forgets every other name
register_DropsOthers(reg, name, handler, pillar, description, at) ==
    [handlers |-> DictSet(EmptyDict, name, handler),
     metadata |-> DictSet(EmptyDict, name,
                          [pillar |-> pillar, description |-> description,
                           registered_at |-> at])]

\* Variant of register that keeps the first registration of a name
register_FirstWriterWins(reg, name, handler, pillar, description, at) ==
    IF name \in DOMAIN reg.handlers THEN reg
    ELSE [handlers |-> DictSet(reg.handlers, name, handler),
          metadata |-> DictSet(reg.metadata, name,
                               [pillar |-> pillar, description |-> description,
                                registered_at |-> at])]

\* CapabilityRegistry.register, called at time `at`
register(reg, name, handler, pillar, description, at) ==
    [handlers |-> DictSet(reg.handlers, name, handler),
     metadata |-> DictSet(reg.metadata, name,
                          [pillar |-> pillar, description |-> description,
                           registered_at |-> at])]

\* CapabilityRegistry.get_handler
get_handler(reg, name) == DictGet(reg.handlers, name)

\* Variant of list_capabilities whose entries carry the handler too
list_capabilities_WithHandler(reg) ==
    [n \in DOMAIN reg.metadata |->
        [pillar |-> reg.metadata[n].pillar,
         description |-> reg.metadata[n].description,
         registered_at |-> reg.metadata[n].registered_at,
         handler |-> reg.handlers[n]]]

\* CapabilityRegistry.list_capabilities
list_capabilities(reg) == reg.metadata

\* GET /capabilities
get_capabilities(reg) ==
    [capabilities |-> list_capabilities(reg),
     total |-> Cardinality(DOMAIN reg.handlers)]

\* The registrations of startup_event, in order
StartupCapabilities ==
    << [name |-> "data:encrypt", handler |-> "handle_data_encrypt",
        pillar |-> "encrypt", description |-> "Encrypt sensitive PHI data"],
       [name |-> "data:decrypt", handler |-> "handle_data_decrypt",
        pillar |-> "encrypt", description |-> "Decrypt sensitive PHI data"],
       [name |-> "audit:log", handler |-> "handle_audit_log",
        pillar |-> "preserve", description |-> "Log immutable audit events"],
       [name |-> "clinical:sepsis_risk", handler |-> "handle_clinical_sepsis_risk",
        pillar |-> "empathy", description |-> "Predict sepsis risk from vitals"],
       [name |-> "clinical:drug_interaction",
        handler |-> "handle_clinical_drug_interaction",
        pillar |-> "empathy", description |-> "Check drug-drug interactions"],
       [name |-> "analytics:readmission_risk",
        handler |-> "handle_analytics_readmission_risk",
        pillar |-> "observe", description |-> "Predict 30-day readmission risk"] >>

RECURSIVE RegisterAll(_, _, _)
RegisterAll(reg, caps, at) ==
    IF caps = <<>> THEN reg
    ELSE RegisterAll(register(reg, Head(caps).name, Head(caps).handler,
                              Head(caps).pillar, Head(caps).description, at),
                     Tail(caps), at)

\* The log records CapabilityRegistry.register emits (logger.info only; the
\* check mark that opens the message is left out)
register_log(reg, name, pillar) ==
    << [logger |-> "gateway", level |-> "INFO",
        message |-> "Registered capability: " \o name \o " (Pillar: " \o pillar \o ")"] >>

RECURSIVE RegisterAllLog(_, _)
RegisterAllLog(reg, caps) ==
    IF caps = <<>> THEN <<>>
    ELSE register_log(reg, Head(caps).name, Head(caps).pillar)
         \o RegisterAllLog(register(reg, Head(caps).name, Head(caps).handler,
                                    Head(caps).pillar, Head(caps).description, 0),
                           Tail(caps))

\* History record of one call of CapabilityRegistry.register: its arguments,
\* who made it, whether the name was registered already, what it logged
RegisterRecord(reg, c, at, by) ==
    [gateway |-> "main", by |-> by, name |-> c.name, handler |-> c.handler,
     pillar |-> c.pillar, description |-> c.description, at |-> at,
     known |-> c.name \in DOMAIN reg.handlers,
     logged |-> register_log(reg, c.name, c.pillar)]

RECURSIVE RegisterAllCalls(_, _, _, _)
RegisterAllCalls(reg, caps, at, by) ==
    IF caps = <<>> THEN <<>>
    ELSE << RegisterRecord(reg, Head(caps), at, by) >>
         \o RegisterAllCalls(register(reg, Head(caps).name, Head(caps).handler,
                                      Head(caps).pillar, Head(caps).description, at),
                             Tail(caps), at, by)

\* ------------------------------------------- the earlier gateway (backup)
\* services_backup/.../ai_api.py and capabilities/core_capabilities.py.
\* base64.b64encode(...).decode(), kept as a reversible wrapping of the text
B64(text) == "b64(" \o text \o ")"

\* zfp_encrypt_deterministic at time t
zfp_encrypt_deterministic(plaintext, t) ==
    B64("[ZFP-P4-ENC-" \o ToString(t) \o "]:" \o plaintext)

\* core_capabilities.handle_data_encrypt
core_handle_data_encrypt(terms, t) ==
    LET plaintext == DictGetDefault(terms, "plaintext", "")
    IN  IF plaintext = ""
        THEN Raise("ValueError", "Encryption requires 'plaintext'.")
        ELSE Return([ciphertext_base64 |-> zfp_encrypt_deterministic(plaintext, t)])

\* core_capabilities.handle_audit_log; `fresh` numbers the uuid4 drawn
core_handle_audit_log(terms, fresh) ==
    Return([log_id |-> "uuid4-" \o ToString(fresh),
            status |-> "Immutable Log Confirmed"])

\* core_capabilities.handle_clinical_sepsis_risk; the risk is in hundredths
core_handle_clinical_sepsis_risk(terms) ==
    LET vitals == DictGet(terms, "vitals")
        truthy == vitals /= None /\ vitals /= Some(EmptyDict)
    IN  IF truthy /\ "blood_pressure" \notin DOMAIN TheValue(vitals)
        THEN Raise("TypeError",
                   "'<' not supported between instances of 'NoneType' and 'int'")
        ELSE LET risk == IF truthy /\ TheValue(vitals).blood_pressure < 90
                         THEN 99 ELSE 5
             IN  Return([risk_score |-> risk,
                         recommendation |-> IF risk < 50 THEN "LOW_RISK"
                                            ELSE "INITIATE_SEPSIS_PROTOCOL"])

\* The handlers defined with `async def` (asyncio.iscoroutinefunction)
AsyncHandlers ==
    {"handle_data_encrypt", "handle_data_decrypt", "handle_audit_log",
     "handle_clinical_sepsis_risk", "handle_clinical_drug_interaction",
     "handle_analytics_readmission_risk"}
\* The plain functions of core_capabilities.py
SyncHandlers ==
    {"core.handle_data_encrypt", "core.handle_audit_log",
     "core.handle_clinical_sepsis_risk"}
iscoroutinefunction(handler) == handler \in AsyncHandlers

\* Body of a plain (synchronous) handler
RunSyncHandler(handler, terms, t, fresh) ==
    CASE handler = "core.handle_data_encrypt" -> core_handle_data_encrypt(terms, t)
      [] handler = "core.handle_audit_log" -> core_handle_audit_log(terms, fresh)
      [] handler = "core.handle_clinical_sepsis_risk" ->
             core_handle_clinical_sepsis_risk(terms)

\* backup CapabilityRegistry.register: the new _registry
backup_register(reg, name, handler) == DictSet(reg, name, handler)

\* backup CapabilityRegistry.register: the log records it emits
backup_register_log(reg, name) ==
    (IF name \in DOMAIN reg
     THEN << [logger |-> "ai_api", level |-> "WARNING",
              message |-> "Overwriting capability registration: " \o name] >>
     ELSE <<>>)
    \o << [logger |-> "ai_api", level |-> "INFO",
           message |-> "Registered capability: " \o name] >>

\* backup CapabilityRegistry.get
backup_get(reg, name) == DictGet(reg, name)

\* initialize_core_capabilities, in order
CoreCapabilities ==
    << [name |-> "data:encrypt", handler |-> "core.handle_data_encrypt"],
       [name |-> "audit:log", handler |-> "core.handle_audit_log"],
       [name |-> "clinical:sepsis_risk",
        handler |-> "core.handle_clinical_sepsis_risk"] >>

\* History record of one call of the earlier CapabilityRegistry.register
BackupRegisterRecord(reg, c, by) ==
    [gateway |-> "backup", by |-> by, name |-> c.name, handler |-> c.handler,
     known |-> c.name \in DOMAIN reg,
     logged |-> backup_register_log(reg, c.name)]

RECURSIVE BackupRegisterAllCalls(_, _, _)
BackupRegisterAllCalls(reg, caps, by) ==
    IF caps = <<>> THEN <<>>
    ELSE << BackupRegisterRecord(reg, Head(caps), by) >>
         \o BackupRegisterAllCalls(
                backup_register(reg, Head(caps).name, Head(caps).handler),
                Tail(caps), by)

RECURSIVE BackupRegisterAll(_, _)
BackupRegisterAll(reg, caps) ==
    IF caps = <<>> THEN reg
    ELSE BackupRegisterAll(backup_register(reg, Head(caps).name, Head(caps).handler),
                           Tail(caps))

RECURSIVE BackupRegisterAllLog(_, _)
BackupRegisterAllLog(reg, caps) ==
    IF caps = <<>> THEN <<>>
    ELSE backup_register_log(reg, Head(caps).name)
         \o BackupRegisterAllLog(
                backup_register(reg, Head(caps).name, Head(caps).handler),
                Tail(caps))

\* Body of a handler that finishes without suspending (every handler but
\* handle_audit_log, which awaits the audit logger).
RunHandler(handler, terms) ==
    CASE handler = "handle_data_encrypt" -> handle_data_encrypt(terms)
      [] handler = "handle_data_decrypt" -> handle_data_decrypt(terms)
      [] handler = "handle_clinical_sepsis_risk" -> handle_clinical_sepsis_risk(terms)
      [] handler = "handle_clinical_drug_interaction" ->
             handle_clinical_drug_interaction(terms)
      [] handler = "handle_analytics_readmission_risk" ->
             handle_analytics_readmission_risk(terms)

\* ------------------------------------------------------------ audit logger
\* The event dict built at the top of AuditLogger.log_event at time t
\* (`details or {}`: a missing or empty details becomes {}).
AuditEvent(event_type, actor, resource, action, details, t) ==
    [timestamp |-> t, event_type |-> event_type, actor |-> actor,
     resource |-> resource, action |-> action, details |-> details]

\* Variant of rpush whose write lands in the middle of the previous one: the
\* new entry is placed before the last entry
rpush_Interleaved(log, event) ==
    IF log = <<>> THEN <<event>>
    ELSE SubSeq(log, 1, Len(log) - 1) \o <<event, log[Len(log)]>>

\* Variant of rpush that pushes at the head of the list (lpush)
rpush_AtHead(log, event) == <<event>> \o log

\* redis.rpush("audit:log", json.dumps(event)): entries are kept as the event
\* they encode
rpush(log, event) == Append(log, event)

\* f"audit:{event_type}:{timestamp}"
EventId(event_type, t) == "audit:" \o event_type \o ":" \o ToString(t)

\* redis.setex(key, ttl, json.dumps(event)) at time t
setex(index, key, ttl, event, t) ==
    DictSet(index, key, [value |-> event, ttl |-> ttl, set_at |-> t])

\* The event handle_audit_log asks the logger to record
HandlerAuditEvent(terms, t) ==
    AuditEvent(DictGetDefault(terms, "event_type", "GENERIC"),
               DictGetDefault(terms, "actor", "SYSTEM"),
               DictGetDefault(terms, "resource", "UNKNOWN"),
               DictGetDefault(terms, "action", "UNKNOWN"),
               DictGetDefault(terms, "details", EmptyDict), t)

\* The event invoke_capability asks the logger to record
DispatchAuditEvent(req, t) ==
    AuditEvent("CAPABILITY_INVOKE",
               DictGetDefault(req.context, "user_id", "SYSTEM"),
               req.capability, "EXECUTE", [terms |-> req.terms], t)

\* ------------------------------------------------------ response envelopes
\* Variant of SuccessEnvelope that also fills error (with an empty message)
SuccessEnvelope_WithError(req, result, start_time, t) ==
    [kind |-> "CapabilityResponse", success |-> TRUE, result |-> Some(result),
     error |-> Some(""), pillar |-> req.pillar,
     execution_time_ms |-> t - start_time, timestamp |-> t]

\* CapabilityResponse(success=True, result=result, ...)
SuccessEnvelope(req, result, start_time, t) ==
    [kind |-> "CapabilityResponse", success |-> TRUE, result |-> Some(result),
     error |-> None, pillar |-> req.pillar,
     execution_time_ms |-> t - start_time, timestamp |-> t]

\* Variant of FailureEnvelope that does not echo the request's pillar
FailureEnvelope_DropsPillar(req, message, start_time, t) ==
    [kind |-> "CapabilityResponse", success |-> FALSE, result |-> None,
     error |-> Some(message), pillar |-> None,
     execution_time_ms |-> t - start_time, timestamp |-> t]

\* CapabilityResponse(success=False, error=str(e), ...)
FailureEnvelope(req, message, start_time, t) ==
    [kind |-> "CapabilityResponse", success |-> FALSE, result |-> None,
     error |-> Some(message), pillar |-> req.pillar,
     execution_time_ms |-> t - start_time, timestamp |-> t]

\* raise HTTPException(status_code=404, detail=...)
NotFound(capability) ==
    [kind |-> "HTTPException", status_code |-> 404,
     detail |-> "Capability '" \o capability \o "' not found"]

\* ------------------------------------------- the secure browser, pure part
\* SecurityConfig.SESSION_TIMEOUT (minutes) and SecurityConfig.MAX_TABS
SESSION_TIMEOUT == 30
MAX_TABS == 5

\* SecurityConfig.ALLOWED_DOMAINS as the class body defines it
ALLOWED_DOMAINS ==
    << "pubmed.ncbi.nlm.nih.gov", "medlineplus.gov", "who.int", "cdc.gov",
       "fda.gov", "nih.gov", "mayoclinic.org", "webmd.com", "uptodate.com",
       "medscape.com", "nejm.org", "bmj.com", "thelancet.com", "drugs.com",
       "rxlist.com", "epocrates.com", "micromedex.com", "jamanetwork.com",
       "nature.com", "sciencedirect.com", "springer.com", "localhost",
       "127.0.0.1", "vas-hospital.local", "hl7.org", "fhir.org", "icd.who.int",
       "ama-assn.org" >>

\* str.startswith and str.endswith
startswith(s, prefix) ==
    Len(s) >= Len(prefix) /\ SubSeq(s, 1, Len(prefix)) = prefix

endswith(s, suffix) ==
    Len(s) >= Len(suffix) /\ SubSeq(s, Len(s) - Len(suffix) + 1, Len(s)) = suffix

\* str.find(sub) for a one- or several-character sub: the position of its
\* first occurrence, 0 when there is none
Find(s, sub) ==
    LET hits == {k \in 1..(Len(s) - Len(sub) + 1) :
                    SubSeq(s, k, k + Len(sub) - 1) = sub}
    IN  IF hits = {} THEN 0 ELSE CHOOSE k \in hits : \A h \in hits : k <= h

\* The text before, and the text after, the first occurrence of sub (the
\* whole text, and nothing, when there is none)
Before(s, sub) == IF Find(s, sub) = 0 THEN s ELSE SubSeq(s, 1, Find(s, sub) - 1)
After(s, sub) ==
    IF Find(s, sub) = 0 THEN "" ELSE SubSeq(s, Find(s, sub) + Len(sub), Len(s))

\* urlparse(url).netloc: what stands between "://" and the next "/", the
\* port included when the URL names one; empty when the text has no "://"
netloc(url) == Before(After(url, "://"), "/")

\* urlparse(url).hostname: the netloc without its port (the URLs below are
\* lower-case and carry no user name); None, here "", when the netloc is empty
hostname(url) == Before(netloc(url), ":")

\* if domain.startswith("www."): domain = domain[4:]
StripWww(domain) ==
    IF startswith(domain, "www.") THEN SubSeq(domain, 5, Len(domain)) ELSE domain

\* any(allowed == domain or domain.endswith("." + allowed) for allowed in ...)
is_allowed(domain, allowed_domains) ==
    \E k \in 1..Len(allowed_domains) :
        \/ allowed_domains[k] = domain
        \/ endswith(domain, "." \o allowed_domains[k])

\* VASRequestInterceptor.interceptRequest: whether info.block(True) is called
interceptRequest(u, allowed_domains) ==
    [block |-> ~is_allowed(StripWww(hostname(u)), allowed_domains)]

\* VASSecurePage.acceptNavigationRequest
acceptNavigationRequest(u, is_main_frame, allowed_domains) ==
    ~(~is_allowed(StripWww(netloc(u)), allowed_domains) /\ is_main_frame)

\* The normalisation of _add_domain: the text typed is stripped and
\* lower-cased (the texts below are), then its hostname when urlparse finds
\* one, else the text up to its first colon
NormalizeDomain(raw) ==
    IF hostname(raw) /= "" THEN hostname(raw) ELSE Before(raw, ":")

\* list.remove(domain): the first occurrence goes
ListRemove(list, x) ==
    LET k == CHOOSE j \in 1..Len(list) :
                 list[j] = x /\ \A h \in 1..(j - 1) : list[h] /= x
    IN  SubSeq(list, 1, k - 1) \o SubSeq(list, k + 1, Len(list))

InList(list, x) == \E k \in 1..Len(list) : list[k] = x

\* The row AuditLogger.log_event inserts into audit_log (its event type and
\* its details; no caller of the window passes url, user_id or session_id)
BrowserAuditRow(event_type, details) ==
    [event_type |-> event_type, details |-> details]

\* ------------------------------------------ the living organism, pure part
\* The files the organism may be asked to guard, what they may hold, and the
\* swarm ids generate_swarm_id may draw
Files == {"test_auth.py", "test_payment.py"}
Contents == {"print('Hello')", "print('Pwned')"}
SwarmIds == {"3f9a1c07d2be", "c41e88a0b76d"}

\* _calculate_file_checksum: the SHA-256 digest of the file's bytes
calculate_file_checksum(content) == "sha256(" \o content \o ")"

\* self.registry[swarm_id] = {...}: a new key goes last, a known one keeps
\* its place
OrganismDictSet(reg, swarm_id, entry) ==
    IF \E k \in 1..Len(reg) : reg[k].swarm_id = swarm_id
    THEN [k \in 1..Len(reg) |->
              IF reg[k].swarm_id = swarm_id THEN entry ELSE reg[k]]
    ELSE Append(reg, entry)

\* The registry entry register_file_with_swarm creates
BodyPart(swarm_id, file_path, content) ==
    [swarm_id |-> swarm_id, file_path |-> file_path,
     checksum |-> calculate_file_checksum(content), status |-> "healthy"]

\* The incident _log_security_incident appends to the log file (its type,
\* its swarm id and its severity)
Incident(alarm_type, info) ==
    [type |-> alarm_type, swarm_id |-> info.swarm_id,
     severity |-> IF alarm_type = "AMPUTATION" THEN "CRITICAL" ELSE "HIGH"]

\* Variant of _trigger_alarm that raises the alert without the lockdown
trigger_alarm_AlertOnly(o, alarm_type, info) ==
    [o EXCEPT !.alert_triggered = TRUE,
              !.incidents = Append(@, Incident(alarm_type, info))]

\* _trigger_alarm with _activate_security_protocols: the alert, then the
\* lockdown, then the incident is logged
trigger_alarm(o, alarm_type, info) ==
    [o EXCEPT !.alert_triggered = TRUE,
              !.security_lockdown = TRUE,
              !.incidents = Append(@, Incident(alarm_type, info))]

\* The loop of verify_body_integrity over the first n registry entries, in
\* the registry's order: the organism after it and the three lists built;
\* disk[f] is {} when os.path.exists(f) is false and {content} otherwise
RECURSIVE ExamineBody(_, _, _)
ExamineBody(o, disk, n) ==
    IF n = 0
    THEN [self |-> o,
          issues |-> [amputations |-> <<>>, infections |-> <<>>, healthy |-> <<>>]]
    ELSE LET before == ExamineBody(o, disk, n - 1)
             info == o.registry[n]
         IN  IF disk[info.file_path] = {}
             THEN [self |-> trigger_alarm(before.self, "AMPUTATION", info),
                   issues |-> [before.issues EXCEPT
                                  !.amputations = Append(@, info.swarm_id)]]
             ELSE IF calculate_file_checksum(TheValue(disk[info.file_path]))
                         /= info.checksum
                  THEN [self |-> trigger_alarm(before.self, "INFECTION", info),
                        issues |-> [before.issues EXCEPT
                                       !.infections = Append(@, info.swarm_id)]]
                  ELSE [self |-> before.self,
                        issues |-> [before.issues EXCEPT
                                       !.healthy = Append(@, info.swarm_id)]]

\* verify_body_integrity
verify_body_integrity(o, disk) == ExamineBody(o, disk, Len(o.registry))

\* get_status_report
get_status_report(o) ==
    [total_body_parts |-> Len(o.registry),
     healthy_parts |->
         Cardinality({k \in 1..Len(o.registry) : o.registry[k].status = "healthy"}),
     security_lockdown |-> o.security_lockdown,
     alert_status |-> IF o.alert_triggered THEN "TRIGGERED" ELSE "NORMAL"]

\* ------------------------------------------------------------------- state
VARIABLES
    phase,          \* "down" before startup_event, "serving", "stopped" after shutdown_event
    redis_pool,     \* the global redis_pool: "None", "connected" or "closed"
    audit_logger,   \* TRUE when the global audit_logger is an AuditLogger, FALSE when None
    store_up,       \* whether the Redis server answers (environment)
    registry,       \* the global CapabilityRegistry
    audit_log,      \* the Redis list "audit:log"
    audit_index,    \* the Redis keys audit:{event_type}:{timestamp}
    now,            \* datetime.utcnow()
    inv,            \* the /invoke coroutines, one slot per request
    log_records,    \* what CapabilityRegistry.register of either gateway logged
    register_calls, \* history: the register calls of both gateways, in order
    backup_registry,\* the earlier gateway's CapabilityRegistry._registry
    exchanges,      \* history: the /negotiate requests answered, in order
    window,         \* the browser window: "open" or "closed"
    tabs,           \* self.tabs.count()
    browser_audit,  \* the rows of the browser's audit_log table, in order
    last_activity,  \* self.last_activity, in minutes
    wall_clock,     \* datetime.now() of the browser, in minutes
    allowed_domains,\* SecurityConfig.ALLOWED_DOMAINS
    blocked_count,  \* the interceptor's blocked_count
    allowed_count,  \* the interceptor's allowed_count
    removed,        \* history: the domains removed and not added again since
    organism_registry, \* ZFPLivingOrganism.registry, in insertion order
    disk,           \* the files on disk: {} when missing, {content} otherwise
    alert_triggered,   \* ZFPLivingOrganism.alert_triggered
    security_lockdown, \* ZFPLivingOrganism.security_lockdown
    issues,         \* what the latest verify_body_integrity returned, if any
    incidents       \* the lines of zfp_security_incidents.log

\* The state of the gateways
gatewayVars == <<phase, redis_pool, audit_logger, store_up, registry, audit_log,
                 audit_index, now, inv, log_records, register_calls,
                 backup_registry, exchanges>>

\* The state of the secure browser, of its whitelist and of the organism
sessionVars == <<window, tabs, last_activity, wall_clock>>
whitelistVars == <<allowed_domains, blocked_count, allowed_count, removed>>
browserVars == <<sessionVars, browser_audit, whitelistVars>>
organismVars == <<organism_registry, disk, alert_triggered, security_lockdown,
                  issues, incidents>>

\* The state of the programs that run on the workstation, not in the gateway
desktopVars == <<browserVars, organismVars>>

vars == <<gatewayVars, desktopVars>>

\* The state of the registrations and of the earlier gateway
registryVars == <<log_records, register_calls>>
backupVars == <<backup_registry, exchanges>>

Slots == 1..MaxInvocations

\* Requests a client may POST to /invoke
Requests ==
    { [capability |-> "data:encrypt", terms |-> [plaintext |-> "PHI-123"],
       context |-> EmptyDict, pillar |-> Some("encrypt")],
      [capability |-> "data:encrypt", terms |-> EmptyDict,
       context |-> [user_id |-> "nurse-7"], pillar |-> None],
      [capability |-> "data:decrypt", terms |-> [ciphertext |-> Encrypt("PHI-123")],
       context |-> [actor |-> "dr-1"], pillar |-> Some("govern")],
      [capability |-> "data:decrypt", terms |-> [ciphertext |-> "garbage"],
       context |-> EmptyDict, pillar |-> None],
      [capability |-> "audit:log",
       terms |-> [action |-> "VIEW", entity_id |-> "PHI-123"],
       context |-> [user_id |-> "nurse-7"], pillar |-> Some("preserve")],
      [capability |-> "clinical:sepsis_risk",
       terms |-> [vitals |-> [temperature |-> 1015, heart_rate |-> 110,
                              bp_systolic |-> 85]],
       context |-> EmptyDict, pillar |-> None],
      [capability |-> "clinical:drug_interaction",
       terms |-> [medications |-> <<"Warfarin", "aspirin 81mg">>],
       context |-> EmptyDict, pillar |-> None],
      [capability |-> "analytics:readmission_risk",
       terms |-> [patient_data |-> [age |-> 70, chronic_conditions |-> 3]],
       context |-> EmptyDict, pillar |-> None],
      [capability |-> "nope:nope", terms |-> EmptyDict,
       context |-> [user_id |-> "nurse-7"], pillar |-> None] }

\* handler_end is a history field: the clock reading at which the handler
\* returned (the code does not sample it)
IdleSlot ==
    [pc |-> "idle", caller |-> "", req |-> None, start_time |-> 0,
     event |-> None, event_id |-> "", result |-> None, handler_end |-> None,
     resp |-> None]

Req(i) == TheValue(inv[i].req)
InFlight(i) == inv[i].pc \in {"rpush", "setex"}

\* VASSecureBrowserWindow.__init__: _setup_ui adds the first tab, then the
\* session start is logged; the interceptor starts with both counters at 0
BrowserInit ==
    /\ window = "open"
    /\ tabs = 1
    /\ browser_audit = << BrowserAuditRow("TAB_OPENED", ""),
                          BrowserAuditRow("SESSION_START",
                                          "VAS Secure Browser launched") >>
    /\ last_activity = 0
    /\ wall_clock = 0
    /\ allowed_domains = ALLOWED_DOMAINS
    /\ blocked_count = 0
    /\ allowed_count = 0
    /\ removed = {}

\* ZFPLivingOrganism.__init__ with no registry file yet; every file the
\* organism may be asked to guard exists
OrganismInit ==
    /\ organism_registry = <<>>
    /\ disk = [f \in Files |-> Some("print('Hello')")]
    /\ alert_triggered = FALSE
    /\ security_lockdown = FALSE
    /\ issues = None
    /\ incidents = <<>>

Init ==
    /\ phase = "down"
    /\ redis_pool = "None"
    /\ audit_logger = FALSE
    /\ store_up \in BOOLEAN
    /\ registry = EmptyRegistry
    /\ audit_log = <<>>
    /\ audit_index = EmptyDict
    /\ now = 0
    /\ inv = [i \in Slots |-> IdleSlot]
    /\ log_records = BackupRegisterAllLog(EmptyDict, CoreCapabilities)
    /\ register_calls = BackupRegisterAllCalls(EmptyDict, CoreCapabilities, "import")
    /\ backup_registry = BackupRegisterAll(EmptyDict, CoreCapabilities)
    /\ exchanges = <<>>
    /\ BrowserInit
    /\ OrganismInit

\* ----------------------------------------------------------- the dispatcher
\* The coroutine finished with response r
Finish(slot, r) ==
    [slot EXCEPT !.pc = "done", !.resp = Some(r), !.caller = "",
                 !.event = None, !.event_id = ""]

\* The coroutine enters AuditLogger.log_event on behalf of `caller`: the event
\* is built, then the coroutine suspends on rpush
EnterLogEvent(slot, caller, event) ==
    [slot EXCEPT !.pc = "rpush", !.caller = caller, !.event = Some(event)]

\* Variant of OnException without the except clause: the exception leaves
\* invoke_capability and the framework answers 500
OnException_Propagates(slot, message, t) ==
    Finish(slot, [kind |-> "HTTPException", status_code |-> 500, detail |-> message])

\* except Exception as e: the failure envelope is returned
OnException(slot, message, t) ==
    Finish(slot, FailureEnvelope(TheValue(slot.req), message, slot.start_time, t))

\* The handler returned `result`: the audit write, if a logger exists, then
\* the success envelope
OnHandlerReturn(slot, result, logger, t) ==
    LET s1 == [slot EXCEPT !.result = Some(result), !.handler_end = Some(t)]
    IN  IF logger
        THEN EnterLogEvent(s1, "dispatcher", DispatchAuditEvent(TheValue(slot.req), t))
        ELSE Finish(s1, SuccessEnvelope(TheValue(slot.req), result, slot.start_time, t))

\* `await handler(request.terms)` when the handler is a plain function: the
\* call returns a dict, and awaiting a dict raises this TypeError
AwaitTypeError == "object dict can't be used in 'await' expression"

\* Variant of BeginInvoke that writes the audit event before it runs the
\* handler
BeginInvoke_AuditFirst(slot, req, reg, logger, t) ==
    LET s0 == [slot EXCEPT !.req = Some(req), !.start_time = t]
        handler == get_handler(reg, req.capability)
    IN  IF handler = None
        THEN Finish(s0, NotFound(req.capability))
        ELSE IF logger
        THEN EnterLogEvent(s0, "dispatcher", DispatchAuditEvent(req, t))
        ELSE OnException(s0, "Audit logger not initialized", t)

\* invoke_capability from its entry to its first suspension point
BeginInvoke(slot, req, reg, logger, t) ==
    LET s0 == [slot EXCEPT !.req = Some(req), !.start_time = t]
        handler == get_handler(reg, req.capability)
    IN  IF handler = None
        THEN Finish(s0, NotFound(req.capability))
        ELSE IF TheValue(handler) = "handle_audit_log"
        THEN IF ~logger
             THEN OnException(s0, "Audit logger not initialized", t)
             ELSE EnterLogEvent(s0, "handler", HandlerAuditEvent(req.terms, t))
        ELSE IF ~iscoroutinefunction(TheValue(handler))
        THEN LET out == RunSyncHandler(TheValue(handler), req.terms, t, 0)
             IN  IF out.kind = "raise"
                 THEN OnException(s0, out.error, t)
                 ELSE OnException(s0, AwaitTypeError, t)
        ELSE LET out == RunHandler(TheValue(handler), req.terms)
             IN  IF out.kind = "raise"
                 THEN OnException(s0, out.error, t)
                 ELSE OnHandlerReturn(s0, out.result, logger, t)

\* Variant of AfterLogEvent in which the handler's audit write is the only
\* one: the dispatcher answers without writing its own event
AfterLogEvent_SkipsDispatch(slot, logger, t) ==
    Finish(slot, SuccessEnvelope(TheValue(slot.req),
                                 IF slot.caller = "handler" THEN [logged |-> TRUE]
                                 ELSE TheValue(slot.result),
                                 slot.start_time, t))

\* Variant of AfterLogEvent that reads the result from a place shared by all
\* coroutines (the result of the first coroutine that has one)
AfterLogEvent_SharedResult(slot, logger, t) ==
    LET holders == {j \in Slots : IsSet(inv[j].result)}
        first == CHOOSE j \in holders : \A k \in holders : j <= k
    IN  IF slot.caller = "handler"
        THEN OnHandlerReturn(slot, [logged |-> TRUE], logger, t)
        ELSE Finish(slot, SuccessEnvelope(TheValue(slot.req),
                                          TheValue(inv[first].result),
                                          slot.start_time, t))

\* log_event returned to its caller
AfterLogEvent(slot, logger, t) ==
    IF slot.caller = "handler"
    THEN OnHandlerReturn(slot, [logged |-> TRUE], logger, t)
    ELSE Finish(slot, SuccessEnvelope(TheValue(slot.req), TheValue(slot.result),
                                      slot.start_time, t))

\* ----------------------------------------------------------------- actions
\* Variant of startup_event that creates the audit logger before the ping,
\* so that a failed ping leaves it in place
Startup_LoggerBeforePing ==
    /\ phase = "down"
    /\ phase' = "serving"
    /\ redis_pool' = IF store_up THEN "connected" ELSE "None"
    /\ audit_logger' = TRUE
    /\ registry' = RegisterAll(registry, StartupCapabilities, now)
    /\ log_records' = log_records \o RegisterAllLog(registry, StartupCapabilities)
    /\ register_calls' = register_calls
                         \o RegisterAllCalls(registry, StartupCapabilities, now,
                                             "startup_event")
    /\ UNCHANGED <<desktopVars, store_up, audit_log, audit_index, now, inv, backupVars>>

\* startup_event
Startup ==
    /\ phase = "down"
    /\ phase' = "serving"
    /\ redis_pool' = IF store_up THEN "connected" ELSE "None"
    /\ audit_logger' = store_up
    /\ registry' = RegisterAll(registry, StartupCapabilities, now)
    /\ log_records' = log_records \o RegisterAllLog(registry, StartupCapabilities)
    /\ register_calls' = register_calls
                         \o RegisterAllCalls(registry, StartupCapabilities, now,
                                             "startup_event")
    /\ UNCHANGED <<desktopVars, store_up, audit_log, audit_index, now, inv, backupVars>>

\* shutdown_event, once no request is being served
Shutdown ==
    /\ phase = "serving"
    /\ \A i \in Slots : ~InFlight(i)
    /\ phase' = "stopped"
    /\ redis_pool' = IF redis_pool /= "None" THEN "closed" ELSE redis_pool
    /\ UNCHANGED <<desktopVars, audit_logger, store_up, registry, audit_log, audit_index, now, inv,
                   registryVars, backupVars>>

\* Variant of Invoke in which serving a request registers the capability
\* anew (a handler that writes to the registry at request time)
Invoke_Registering(i, req) ==
    /\ phase = "serving"
    /\ inv[i].pc = "idle"
    /\ \A j \in Slots : j < i => inv[j].pc /= "idle"
    /\ inv' = [inv EXCEPT ![i] = BeginInvoke(inv[i], req, registry, audit_logger, now)]
    /\ registry' = register(registry, req.capability, "handle_data_encrypt",
                            "govern", "registered by a handler", now)
    /\ UNCHANGED <<desktopVars, phase, redis_pool, audit_logger, store_up, audit_log,
                   audit_index, now, registryVars, backupVars>>

\* POST /invoke: the coroutine runs up to its first await on Redis
Invoke(i, req) ==
    /\ phase = "serving"
    /\ inv[i].pc = "idle"
    /\ \A j \in Slots : j < i => inv[j].pc /= "idle"
    /\ inv' = [inv EXCEPT ![i] = BeginInvoke(inv[i], req, registry, audit_logger, now)]
    /\ UNCHANGED <<desktopVars, phase, redis_pool, audit_logger, store_up, registry, audit_log,
                   audit_index, now, registryVars, backupVars>>

\* await self.redis.rpush(...) completes or raises
LogEventRpush(i) ==
    /\ inv[i].pc = "rpush"
    /\ IF store_up
       THEN /\ audit_log' = rpush(audit_log, TheValue(inv[i].event))
            /\ inv' = [inv EXCEPT ![i].pc = "setex",
                                  ![i].event_id =
                                      EventId(TheValue(inv[i].event).event_type, now)]
       ELSE /\ inv' = [inv EXCEPT ![i] =
                          OnException(inv[i], "Error connecting to Redis", now)]
            /\ UNCHANGED audit_log
    /\ UNCHANGED <<desktopVars, phase, redis_pool, audit_logger, store_up, registry,
                   audit_index, now, registryVars, backupVars>>

\* await self.redis.setex(...) completes or raises; log_event returns
LogEventSetex(i) ==
    /\ inv[i].pc = "setex"
    /\ IF store_up
       THEN /\ audit_index' = setex(audit_index, inv[i].event_id, AuditTTL,
                                    TheValue(inv[i].event), now)
            /\ inv' = [inv EXCEPT ![i] = AfterLogEvent(inv[i], audit_logger, now)]
       ELSE /\ inv' = [inv EXCEPT ![i] =
                          OnException(inv[i], "Error connecting to Redis", now)]
            /\ UNCHANGED audit_index
    /\ UNCHANGED <<desktopVars, phase, redis_pool, audit_logger, store_up, registry,
                   audit_log, now, registryVars, backupVars>>

\* The Redis server becomes unreachable, or reachable again
StoreFails ==
    /\ store_up
    /\ store_up' = FALSE
    /\ UNCHANGED <<desktopVars, phase, redis_pool, audit_logger, registry, audit_log,
                   audit_index, now, inv, registryVars, backupVars>>

StoreRecovers ==
    /\ ~store_up
    /\ store_up' = TRUE
    /\ UNCHANGED <<desktopVars, phase, redis_pool, audit_logger, registry, audit_log,
                   audit_index, now, inv, registryVars, backupVars>>

\* Time passes (the clock reads 0 when the process starts)
Tick ==
    /\ phase = "serving"
    /\ now < MaxClock
    /\ now' = now + 1
    /\ UNCHANGED <<desktopVars, phase, redis_pool, audit_logger, store_up, registry,
                   audit_log, audit_index, inv, registryVars, backupVars>>

Next ==
    \/ Startup
    \/ Shutdown
    \/ \E i \in Slots, req \in Requests : Invoke(i, req)
    \/ \E i \in Slots : LogEventRpush(i)
    \/ \E i \in Slots : LogEventSetex(i)
    \/ StoreFails
    \/ StoreRecovers

\* The gateway with the clock standing still: every datetime.utcnow() of a
\* behaviour reads the same instant
Spec == Init /\ [][Next]_vars

\* Requests to four distinct capabilities, sent concurrently
ConcurrentRequests ==
    {r \in Requests :
        /\ r.capability \in {"data:encrypt", "data:decrypt", "audit:log",
                             "clinical:sepsis_risk"}
        /\ r.terms /= EmptyDict
        /\ r.terms /= [ciphertext |-> "garbage"]}

\* The serving gateway up to its shutdown
NextLive ==
    \/ Startup
    \/ \E i \in Slots, req \in ConcurrentRequests : Invoke(i, req)
    \/ \E i \in Slots : LogEventRpush(i)
    \/ \E i \in Slots : LogEventSetex(i)
    \/ StoreFails
    \/ StoreRecovers

\* The serving gateway when every awaited Redis call ends, by returning or by
\* raising
SpecLive ==
    /\ Init /\ [][NextLive]_vars
    /\ \A i \in Slots : WF_vars(LogEventRpush(i)) /\ WF_vars(LogEventSetex(i))

\* The gateway from startup to shutdown under concurrent requests
NextLifecycle == NextLive \/ Shutdown

SpecLifecycle == Init /\ [][NextLifecycle]_vars

\* The gateway with time passing between any two steps
NextTimed == Next \/ Tick

SpecTimed == Init /\ [][NextTimed]_vars

\* ------------------------------------------------- registrations at run time
\* Calls of registry.register made besides those of startup_event
RegisterInputs ==
    { [name |-> "data:encrypt", handler |-> "handle_data_decrypt",
       pillar |-> "govern", description |-> "Replaced at run time"],
      [name |-> "lab:order", handler |-> "handle_data_encrypt",
       pillar |-> "prevent", description |-> "Order a lab test"],
      [name |-> "lab:order", handler |-> "core.handle_data_encrypt",
       pillar |-> "recover", description |-> "Order a lab test (plain function)"] }

\* The register calls made so far besides those of startup and import
ClientCalls ==
    Cardinality({k \in 1..Len(register_calls) : register_calls[k].by = "client"})

\* registry.register(name, handler, pillar, description)
RegisterCall(c) ==
    /\ ClientCalls < MaxRegistrations
    /\ registry' = register(registry, c.name, c.handler, c.pillar, c.description, now)
    /\ log_records' = log_records \o register_log(registry, c.name, c.pillar)
    /\ register_calls' = Append(register_calls,
                                RegisterRecord(registry, c, now, "client"))
    /\ UNCHANGED <<desktopVars, phase, redis_pool, audit_logger, store_up, audit_log,
                   audit_index, now, inv, backupVars>>

\* Calls of register_capability(name, handler) on the earlier gateway
BackupRegisterInputs ==
    { [name |-> "data:encrypt", handler |-> "handle_data_encrypt"],
      [name |-> "lab:order", handler |-> "core.handle_clinical_sepsis_risk"] }

\* register_capability(name, handler)
BackupRegister(c) ==
    /\ ClientCalls < MaxRegistrations
    /\ backup_registry' = backup_register(backup_registry, c.name, c.handler)
    /\ log_records' = log_records \o backup_register_log(backup_registry, c.name)
    /\ register_calls' = Append(register_calls,
                                BackupRegisterRecord(backup_registry, c, "client"))
    /\ UNCHANGED <<desktopVars, phase, redis_pool, audit_logger, store_up, registry, audit_log,
                   audit_index, now, inv, exchanges>>

\* Requests a client may POST to /invoke while registrations go on
LookupRequests ==
    { [capability |-> "data:encrypt", terms |-> [plaintext |-> "PHI-123"],
       context |-> EmptyDict, pillar |-> None],
      [capability |-> "lab:order", terms |-> [plaintext |-> "PHI-123"],
       context |-> EmptyDict, pillar |-> None],
      [capability |-> "nope:nope", terms |-> EmptyDict,
       context |-> EmptyDict, pillar |-> None] }

NextRegistry ==
    \/ Startup
    \/ \E c \in RegisterInputs : RegisterCall(c)
    \/ \E c \in BackupRegisterInputs : BackupRegister(c)
    \/ \E i \in Slots, req \in LookupRequests : Invoke(i, req)
    \/ \E i \in Slots : LogEventRpush(i)
    \/ \E i \in Slots : LogEventSetex(i)

\* Both registries under registrations, the main gateway serving meanwhile
SpecRegistry == Init /\ [][NextRegistry]_vars

\* ------------------------------------------------ the earlier gateway serving
\* negotiate_core(capability, terms) at time t
negotiate_core(reg, capability, terms, t, fresh) ==
    LET handler == backup_get(reg, capability)
    IN  IF handler = None
        THEN Raise("CapabilityError", "Capability not found: " \o capability)
        ELSE LET out == IF iscoroutinefunction(TheValue(handler))
                        THEN RunHandler(TheValue(handler), terms)
                        ELSE RunSyncHandler(TheValue(handler), terms, t, fresh)
             IN  IF out.kind = "raise"
                 THEN Return([status |-> "error", capability |-> capability,
                              error |-> out.error])
                 ELSE Return([status |-> "ok", capability |-> capability,
                              result |-> out.result])

\* negotiate_endpoint: the HTTP answer to what negotiate_core did.  The
\* HTTPException(500) raised inside the try block is caught by the last
\* except clause and raised again with str(e) as its detail.
negotiate_endpoint(core) ==
    IF core.kind = "raise"
    THEN [status_code |-> 404, detail |-> core.error]
    ELSE IF core.result.status = "error"
    THEN [status_code |-> 500, detail |-> "500: " \o core.result.error]
    ELSE [status_code |-> 200, body |-> core.result]

\* The ciphertext with the byte at position p replaced by another byte
Tamper(ciphertext, p) ==
    SubSeq(ciphertext, 1, p - 1)
    \o (IF SubSeq(ciphertext, p, p) = "X" THEN "Y" ELSE "X")
    \o SubSeq(ciphertext, p + 1, Len(ciphertext))

\* Every ciphertext that differs from c in its fourth or in its last byte
Tampered(c) == {Tamper(c, p) : p \in {4, Len(c)}}

\* Ciphertexts the earlier gateway has handed out
IssuedCiphertexts ==
    { exchanges[k].body.result.ciphertext_base64 :
        k \in { j \in 1..Len(exchanges) :
                  /\ exchanges[j].status_code = 200
                  /\ exchanges[j].req.capability \in {"data:encrypt", "lab:order"}
                  /\ "ciphertext_base64" \in DOMAIN exchanges[j].body.result } }

\* Requests a client may POST to /negotiate
NegotiateRequests ==
    { [capability |-> "data:encrypt", terms |-> [plaintext |-> "PHI-123"]],
      [capability |-> "data:encrypt", terms |-> EmptyDict],
      [capability |-> "data:encrypt", terms |-> [plaintext |-> ""]],
      [capability |-> "audit:log", terms |-> [action |-> "VIEW"]],
      [capability |-> "clinical:sepsis_risk",
       terms |-> [vitals |-> [blood_pressure |-> 85]]],
      [capability |-> "lab:order", terms |-> [vitals |-> EmptyDict]] }
    \cup { [capability |-> "data:decrypt", terms |-> [ciphertext |-> c]] :
             c \in IssuedCiphertexts
                   \cup UNION {Tampered(i) : i \in IssuedCiphertexts} }

\* POST /negotiate
Negotiate(req) ==
    /\ Len(exchanges) < MaxNegotiations
    /\ LET core == negotiate_core(backup_registry, req.capability, req.terms, now,
                                  Len(exchanges) + 1)
           http == negotiate_endpoint(core)
       IN  exchanges' = Append(exchanges,
                               [req |-> req, core |-> core] @@ http)
    /\ UNCHANGED <<desktopVars, phase, redis_pool, audit_logger, store_up, registry, audit_log,
                   audit_index, now, inv, registryVars, backup_registry>>

NextBackup ==
    \/ \E c \in BackupRegisterInputs : BackupRegister(c)
    \/ \E req \in NegotiateRequests : Negotiate(req)

\* The earlier gateway: registrations and /negotiate requests
SpecBackup == Init /\ [][NextBackup]_vars

\* ------------------------------------------- the cipher through both gateways
\* Requests to the cipher capabilities of the main gateway
CipherRequests ==
    { [capability |-> "data:encrypt", terms |-> t, context |-> EmptyDict,
       pillar |-> Some("encrypt")] :
          t \in {[plaintext |-> "PHI-123"], [plaintext |-> ""]} }
    \cup
    { [capability |-> "data:decrypt", terms |-> t, context |-> EmptyDict,
       pillar |-> Some("encrypt")] :
          t \in {[ciphertext |-> Encrypt("PHI-123")], [ciphertext |-> ""]}
                \cup {[ciphertext |-> c] : c \in Tampered(Encrypt("PHI-123"))} }
    \cup
    { [capability |-> c, terms |-> EmptyDict, context |-> EmptyDict,
       pillar |-> Some("encrypt")] : c \in {"data:encrypt", "data:decrypt"} }

\* Requests to the cipher capabilities of the earlier gateway
CipherNegotiateRequests ==
    {r \in NegotiateRequests : r.capability \in {"data:encrypt", "data:decrypt"}}

NextCipher ==
    \/ Startup
    \/ \E i \in Slots, req \in CipherRequests : Invoke(i, req)
    \/ \E i \in Slots : LogEventRpush(i)
    \/ \E i \in Slots : LogEventSetex(i)
    \/ \E req \in CipherNegotiateRequests : Negotiate(req)

\* Both gateways serving requests to data:encrypt and data:decrypt
SpecCipher == Init /\ [][NextCipher]_vars

\* ------------------------------------------------------------ observations
Done(i) == inv[i].pc = "done"
Resp(i) == TheValue(inv[i].resp)
Registered(name) == name \in DOMAIN registry.handlers
IsEnvelope(r) == r.kind = "CapabilityResponse"
\* The handler of slot i returned normally (its result was kept)
HandlerReturned(i) == IsSet(inv[i].result)
\* No coroutine is suspended
Quiescent == \A i \in Slots : ~InFlight(i)
\* The entries of the primary log that record a dispatch of `req`
DispatchEntries(req) ==
    {k \in 1..Len(audit_log) :
        /\ audit_log[k].event_type = "CAPABILITY_INVOKE"
        /\ audit_log[k].resource = req.capability
        /\ audit_log[k].action = "EXECUTE"
        /\ audit_log[k].details = [terms |-> req.terms]}
IsPrefix(s, t) == Len(s) <= Len(t) /\ SubSeq(t, 1, Len(s)) = s

\* C1: every invocation of a name that is not registered is answered by a
\* CapabilityResponse with success=false whose error contains the name; the
\* dispatcher raises nothing to its caller.
C1_UnknownNameGetsFailureEnvelope ==
    \A i \in Slots :
        (Done(i) /\ ~Registered(Req(i).capability)) =>
            /\ IsEnvelope(Resp(i))
            /\ ~Resp(i).success
            /\ IsSet(Resp(i).error)
            /\ Contains(TheValue(Resp(i).error), Req(i).capability)

\* The message of the exception the handler of slot i raises in this step, if
\* it raises one: at entry (validation, a missing audit logger) or at one of
\* the awaits of handle_audit_log
RaisedByHandler(i) ==
    IF inv[i].pc = "idle"
    THEN LET req == TheValue(inv'[i].req)
             h == get_handler(registry, req.capability)
         IN  IF h = None THEN None
             ELSE IF TheValue(h) = "handle_audit_log"
             THEN (IF audit_logger THEN None
                   ELSE Some("Audit logger not initialized"))
             ELSE LET out == RunHandler(TheValue(h), req.terms)
                  IN  IF out.kind = "raise" THEN Some(out.error) ELSE None
    ELSE IF inv[i].caller = "handler" /\ ~store_up
    THEN Some("Error connecting to Redis")
    ELSE None

\* C2: when the handler of a registered capability raises, the invocation
\* ends with an envelope with success=false, error equal to the exception's
\* message and no result, and the step changes no other invocation.
C2_HandlerExceptionIsCaught ==
    [][\A i \in Slots :
        (inv[i].pc /= "done" /\ inv'[i].pc = "done" /\ IsSet(RaisedByHandler(i))) =>
            /\ IsEnvelope(TheValue(inv'[i].resp))
            /\ ~TheValue(inv'[i].resp).success
            /\ TheValue(inv'[i].resp).error = RaisedByHandler(i)
            /\ TheValue(inv'[i].resp).result = None
            /\ \A j \in Slots \ {i} : inv'[j] = inv[j]]_vars

\* A handler failure next to a completed success of another invocation
C2_Witness ==
    \E i, j \in Slots :
        /\ i /= j /\ Done(i) /\ Done(j)
        /\ Registered(Req(i).capability)
        /\ IsEnvelope(Resp(i)) /\ ~Resp(i).success
        /\ Resp(i).error = Some("Missing 'plaintext' in terms")
        /\ IsEnvelope(Resp(j)) /\ Resp(j).success

\* C3: with the audit logger initialized, every completed invocation of a
\* registered capability has its CAPABILITY_INVOKE / EXECUTE event with the
\* original terms in the primary log, and once nothing is in flight the log
\* holds exactly one such event per completed invocation.
C3_EveryInvocationAuditedOnce ==
    audit_logger =>
        /\ \A i \in Slots :
              (Done(i) /\ Registered(Req(i).capability)) =>
                  DispatchEntries(Req(i)) /= {}
        /\ Quiescent =>
              Cardinality({k \in 1..Len(audit_log) :
                              audit_log[k].event_type = "CAPABILITY_INVOKE"})
              = Cardinality({i \in Slots : Done(i) /\ Registered(Req(i).capability)})

\* C4: with the audit logger initialized, a completed invocation of an
\* unregistered name has an EXECUTE_DENIED event naming it in the primary log.
C4_DeniedLookupIsAudited ==
    \A i \in Slots :
        (audit_logger /\ Done(i) /\ ~Registered(Req(i).capability)) =>
            \E k \in 1..Len(audit_log) :
                /\ audit_log[k].action = "EXECUTE_DENIED"
                /\ audit_log[k].resource = Req(i).capability

\* C5: an invocation whose handler returned normally ends with success=true
\* and the handler's result, whatever happened to the audit write.
C5_AuditFailureKeepsSuccess ==
    \A i \in Slots :
        (Done(i) /\ HandlerReturned(i)) =>
            /\ IsEnvelope(Resp(i))
            /\ Resp(i).success
            /\ Resp(i).result = inv[i].result

\* C6: without an audit logger (the store was unreachable at startup), an
\* invocation whose handler returned is never answered by the plain success
\* envelope: the audit append it owes fails and that failure is surfaced.
C6_UninitializedAuditFailsFast ==
    \A i \in Slots :
        (phase /= "down" /\ ~audit_logger /\ Done(i) /\ HandlerReturned(i)) =>
            Resp(i) /= SuccessEnvelope(Req(i), TheValue(inv[i].result),
                                       inv[i].start_time, Resp(i).timestamp)

\* C7: the primary log holds at least as many events as there are invocations
\* answered with success=true.
C7_LogCoversSuccesses ==
    Cardinality({i \in Slots : Done(i) /\ IsEnvelope(Resp(i)) /\ Resp(i).success})
        <= Len(audit_log)

\* C8: the primary log is append-only: every step leaves the previous log as
\* a prefix of the new one.
C8_LogIsAppendOnly == [][IsPrefix(audit_log, audit_log')]_vars

\* The log after the handler's and the dispatcher's event of one audit:log
\* invocation were appended to it
C8_Witness ==
    /\ Len(audit_log) >= 2
    /\ \E i \in Slots : Done(i) /\ Req(i).capability = "audit:log"
                        /\ IsEnvelope(Resp(i)) /\ Resp(i).success

\* C9: whenever a coroutine leaves the await on setex, whether the secondary
\* write succeeded or raised, its event is in the primary log and log_event
\* returns normally to its caller.
C9_SecondaryFailureKeepsAppend ==
    [][\A i \in Slots :
        (inv[i].pc = "setex" /\ inv'[i] /= inv[i]) =>
            /\ \E k \in 1..Len(audit_log) : audit_log[k] = TheValue(inv[i].event)
            /\ inv'[i] = AfterLogEvent(inv[i], audit_logger, now)]_vars

\* C10: every envelope returned has exactly one of result / error set:
\* result and no error when success, error and no result otherwise.
C10_ExactlyOneOfResultError ==
    \A i \in Slots :
        (Done(i) /\ IsEnvelope(Resp(i))) =>
            /\ Resp(i).success => (IsSet(Resp(i).result) /\ Resp(i).error = None)
            /\ ~Resp(i).success => (IsSet(Resp(i).error) /\ Resp(i).result = None)

\* A success envelope and a failure envelope, the latter for a handler that
\* had returned before the audit write failed
C10_Witness ==
    \E i, j \in Slots :
        /\ Done(i) /\ IsEnvelope(Resp(i)) /\ Resp(i).success
        /\ Done(j) /\ IsEnvelope(Resp(j)) /\ ~Resp(j).success
        /\ HandlerReturned(j)

\* C11: a coroutine is inside the dispatcher's audit write only after its
\* handler has run to completion (its result is already kept).
C11_HandlerBeforeAudit ==
    \A i \in Slots :
        (InFlight(i) /\ inv[i].caller = "dispatcher") => HandlerReturned(i)

\* The dispatcher's event of an invocation was appended and its secondary
\* write is pending, the handler's result being kept
C11_Witness ==
    \E i \in Slots :
        /\ inv[i].pc = "setex" /\ inv[i].caller = "dispatcher"
        /\ HandlerReturned(i)
        /\ DispatchEntries(Req(i)) /= {}

\* C12: the execution_time_ms of an envelope is the time from the start
\* sample to the return of the handler: the time the audit write takes is
\* not part of it.
C12_DurationExcludesAudit ==
    \A i \in Slots :
        (Done(i) /\ IsEnvelope(Resp(i)) /\ HandlerReturned(i)) =>
            Resp(i).execution_time_ms =
                TheValue(inv[i].handler_end) - inv[i].start_time

\* The calls of register on gateway g, and the last one made for each name
CallsOn(g) == {k \in 1..Len(register_calls) : register_calls[k].gateway = g}
IsLastCall(k) ==
    ~ \E j \in (k + 1)..Len(register_calls) :
          /\ register_calls[j].gateway = register_calls[k].gateway
          /\ register_calls[j].name = register_calls[k].name
\* A name was registered again with another handler
Overwritten(g) ==
    \E j, k \in CallsOn(g) :
        /\ j < k
        /\ register_calls[j].name = register_calls[k].name
        /\ register_calls[j].handler /= register_calls[k].handler

\* C13: in both registries the last register call made for a name decides:
\* lookup returns its handler, the listed metadata is its metadata, and the
\* registry holds one entry per name ever registered.
C13_LastWriterWins ==
    /\ \A k \in CallsOn("main") :
           IsLastCall(k) =>
               LET c == register_calls[k]
               IN  /\ get_handler(registry, c.name) = Some(c.handler)
                   /\ c.name \in DOMAIN list_capabilities(registry)
                   /\ list_capabilities(registry)[c.name] =
                          [pillar |-> c.pillar, description |-> c.description,
                           registered_at |-> c.at]
    /\ DOMAIN registry.handlers = {register_calls[k].name : k \in CallsOn("main")}
    /\ DOMAIN registry.metadata = DOMAIN registry.handlers
    /\ \A k \in CallsOn("backup") :
           IsLastCall(k) =>
               backup_get(backup_registry, register_calls[k].name)
                   = Some(register_calls[k].handler)
    /\ DOMAIN backup_registry = {register_calls[k].name : k \in CallsOn("backup")}

\* Both registries have had a name registered a second time, differently
C13_Witness == Overwritten("main") /\ Overwritten("backup")

\* The call logged a record of warning level
Warned(c) == \E n \in 1..Len(c.logged) : c.logged[n].level = "WARNING"

\* C14: a register call logs a warning exactly when the name it registers was
\* registered already, in both registries.
C14_ReRegistrationWarns ==
    \A k \in 1..Len(register_calls) :
        register_calls[k].known <=> Warned(register_calls[k])

\* C15: a registered name stays registered, and an invocation of a name that
\* is registered when the request arrives is never answered "not found",
\* whatever registrations and invocations surround it.
C15_RegisteredStaysResolvable ==
    [][ /\ \A n \in DOMAIN registry.handlers : n \in DOMAIN registry'.handlers
        /\ \A i \in Slots, req \in LookupRequests :
               (Registered(req.capability) /\ Invoke(i, req)) =>
                   (inv'[i].pc = "done" =>
                        TheValue(inv'[i].resp).kind /= "HTTPException") ]_vars

\* A name registered at run time was invoked and answered with an envelope,
\* and registrations went on
C15_Witness ==
    /\ ClientCalls = MaxRegistrations
    /\ \E i \in Slots :
           /\ Done(i) /\ Req(i).capability = "lab:order"
           /\ IsEnvelope(Resp(i))
    /\ \E i \in Slots : Done(i) /\ ~IsEnvelope(Resp(i))

\* C16: GET /capabilities lists exactly the registered names, once each; an
\* entry holds the pillar, the description and the registration time and
\* nothing else; the total is the number of entries.
C16_ListingIsMetadataOnly ==
    LET listing == get_capabilities(registry)
    IN  /\ DOMAIN listing.capabilities =
               {register_calls[k].name : k \in CallsOn("main")}
        /\ \A n \in DOMAIN listing.capabilities :
               /\ get_handler(registry, n) /= None
               /\ DOMAIN listing.capabilities[n] =
                      {"pillar", "description", "registered_at"}
        /\ \A n \in {"lab:order", "data:encrypt", "nope:nope"} :
               n \notin DOMAIN listing.capabilities => get_handler(registry, n) = None
        /\ listing.total = Cardinality(DOMAIN listing.capabilities)

\* The listing covers the startup capabilities and a name added at run time,
\* one name having been registered twice
C16_Witness ==
    /\ phase = "serving"
    /\ Registered("lab:order")
    /\ Overwritten("main")
    /\ get_capabilities(registry).total = Len(StartupCapabilities) + 1

\* C17: when POST /invoke names a capability whose registered handler is a
\* plain function that returns v on the request's terms, the dispatcher does
\* not answer with a failure: a response given at once is the success
\* envelope carrying v.
C17_SyncHandlerSucceeds ==
    [][ \A i \in Slots, req \in LookupRequests :
            LET h == get_handler(registry, req.capability)
            IN  ( /\ h /= None
                  /\ TheValue(h) \in SyncHandlers
                  /\ RunSyncHandler(TheValue(h), req.terms, now, 0).kind = "return"
                  /\ Invoke(i, req) ) =>
                    (inv'[i].pc = "done" =>
                        /\ IsEnvelope(TheValue(inv'[i].resp))
                        /\ TheValue(inv'[i].resp).success
                        /\ TheValue(inv'[i].resp).result =
                               Some(RunSyncHandler(TheValue(h), req.terms,
                                                   now, 0).result)) ]_vars

\* The handler of the k-th /negotiate request raised
NegotiateHandlerRaised(k) ==
    /\ exchanges[k].core.kind = "return"
    /\ exchanges[k].core.result.status = "error"

\* C18: a /negotiate request whose handler raised is answered with status
\* 200, never with a 5xx status.
C18_HandlerFailureIsNot5xx ==
    \A k \in 1..Len(exchanges) :
        NegotiateHandlerRaised(k) => exchanges[k].status_code = 200

\* The terms lack the field, or hold the empty string in it
Blank(terms, field) == field \notin DOMAIN terms \/ terms[field] = ""

\* C19: data:encrypt with a blank plaintext and data:decrypt with a blank
\* ciphertext are answered by the handler's validation error and carry no
\* result: in the main gateway a failure envelope with the ValueError's
\* message (not a token, not the cipher's InvalidToken), in the earlier
\* gateway (which has data:encrypt only) negotiate_core's error status with
\* the ValueError's message.
C19_BlankInputIsRejected ==
    /\ \A i \in Slots :
           (inv[i].pc /= "idle" /\ Req(i).capability = "data:encrypt"
                /\ Blank(Req(i).terms, "plaintext")) =>
               /\ Done(i) /\ IsEnvelope(Resp(i)) /\ ~Resp(i).success
               /\ Resp(i).result = None
               /\ Resp(i).error = Some("Missing 'plaintext' in terms")
    /\ \A i \in Slots :
           (inv[i].pc /= "idle" /\ Req(i).capability = "data:decrypt"
                /\ Blank(Req(i).terms, "ciphertext")) =>
               /\ Done(i) /\ IsEnvelope(Resp(i)) /\ ~Resp(i).success
               /\ Resp(i).result = None
               /\ Resp(i).error = Some("Missing 'ciphertext' in terms")
    /\ \A k \in 1..Len(exchanges) :
           (exchanges[k].req.capability = "data:encrypt"
                /\ Blank(exchanges[k].req.terms, "plaintext")) =>
               /\ NegotiateHandlerRaised(k)
               /\ exchanges[k].core.result.error = "Encryption requires 'plaintext'."
               /\ "result" \notin DOMAIN exchanges[k].core.result
               /\ exchanges[k].status_code /= 200

\* An empty plaintext and an empty ciphertext were sent to the main gateway
\* and a request without plaintext to the earlier one
C19_Witness ==
    /\ \E i \in Slots :
           Done(i) /\ Req(i).capability = "data:encrypt"
               /\ Req(i).terms = [plaintext |-> ""]
    /\ \E i \in Slots :
           Done(i) /\ Req(i).capability = "data:decrypt"
               /\ Req(i).terms = [ciphertext |-> ""]
    /\ \E k \in 1..Len(exchanges) :
           exchanges[k].req.capability = "data:encrypt"
               /\ exchanges[k].req.terms = EmptyDict

\* C20: in the earlier gateway, data:encrypt of a non-empty plaintext x is
\* answered 200 with a non-empty ciphertext c, and a later data:decrypt of c
\* is answered 200 with plaintext x.
C20_RoundTrip ==
    \A k \in 1..Len(exchanges) :
        (exchanges[k].req.capability = "data:encrypt"
             /\ ~Blank(exchanges[k].req.terms, "plaintext")) =>
            /\ exchanges[k].status_code = 200
            /\ exchanges[k].body.result.ciphertext_base64 /= ""
            /\ \A j \in (k + 1)..Len(exchanges) :
                   exchanges[j].req =
                       [capability |-> "data:decrypt",
                        terms |-> [ciphertext |->
                                     exchanges[k].body.result.ciphertext_base64]]
                   => /\ exchanges[j].status_code = 200
                      /\ exchanges[j].body.result.plaintext =
                             exchanges[k].req.terms.plaintext

\* The audit:log request of the specification's example
IsAuditLogExample(req) ==
    /\ req.capability = "audit:log"
    /\ req.terms = [action |-> "VIEW", entity_id |-> "PHI-123"]

\* C21: an audit:log request with terms {action: VIEW, entity_id: PHI-123}
\* that the serving gateway has answered was answered with a success envelope
\* whose result carries a log identifier.
C21_AuditLogReturnsLogId ==
    \A i \in Slots :
        (Done(i) /\ IsAuditLogExample(Req(i))) =>
            /\ IsEnvelope(Resp(i))
            /\ Resp(i).success
            /\ "log_id" \in DOMAIN TheValue(Resp(i).result)

\* GET /health at time t
health_check(pool, t) ==
    [status |-> "UP", service |-> "vas-ai-gateway", version |-> "1.0.0",
     timestamp |-> t, redis_connected |-> pool /= "None"]

\* The connection to the durable store is established right now: it was
\* opened, it was not closed, and the server answers
ConnectionEstablished == redis_pool = "connected" /\ store_up

\* C22: GET /health reports redis_connected exactly when the connection to
\* the durable store is established at that moment.
C22_HealthTracksConnection ==
    health_check(redis_pool, now).redis_connected <=> ConnectionEstablished

\* C23: the CAPABILITY_INVOKE event the dispatcher writes for a request names
\* as actor the request's context["actor"], or "SYSTEM" when the context has
\* no such key.
C23_ActorFromContext ==
    \A i \in Slots :
        (InFlight(i) /\ inv[i].caller = "dispatcher") =>
            /\ TheValue(inv[i].event).event_type = "CAPABILITY_INVOKE"
            /\ TheValue(inv[i].event).actor =
                   DictGetDefault(Req(i).context, "actor", "SYSTEM")

\* What the handler registered for the request's capability does with the
\* request's terms, the audit write of handle_audit_log assumed to succeed
OwnOutput(req) ==
    LET h == TheValue(get_handler(registry, req.capability))
    IN  IF h = "handle_audit_log" THEN Return([logged |-> TRUE])
        ELSE RunHandler(h, req.terms)

\* Failures that come from the audit logger, not from the handler's own work
AuditFailures == {"Audit logger not initialized", "Error connecting to Redis"}

\* No envelope, pending event or log entry holds anything but the terms and
\* the handler output of the invocation it belongs to
NoCrossTalk ==
    /\ \A i \in Slots :
           (Done(i) /\ IsEnvelope(Resp(i))) =>
               IF Resp(i).success
               THEN /\ OwnOutput(Req(i)).kind = "return"
                    /\ Resp(i).result = Some(OwnOutput(Req(i)).result)
               ELSE \/ TheValue(Resp(i).error) \in AuditFailures
                    \/ /\ OwnOutput(Req(i)).kind = "raise"
                       /\ Resp(i).error = Some(OwnOutput(Req(i)).error)
    /\ \A i \in Slots :
           InFlight(i) =>
               LET e == TheValue(inv[i].event)
               IN  IF inv[i].caller = "dispatcher"
                   THEN /\ e = DispatchAuditEvent(Req(i), e.timestamp)
                        /\ inv[i].result = Some(OwnOutput(Req(i)).result)
                   ELSE e = HandlerAuditEvent(Req(i).terms, e.timestamp)
    /\ \A k \in 1..Len(audit_log) :
           audit_log[k].event_type = "CAPABILITY_INVOKE" =>
               \E i \in Slots :
                   /\ inv[i].pc /= "idle"
                   /\ audit_log[k] = DispatchAuditEvent(Req(i), audit_log[k].timestamp)

\* C24: under every interleaving of concurrent invocations each envelope
\* carries the output of its own handler on its own terms, no pending event
\* or log entry carries another invocation's terms, and every invocation
\* that is waiting on the audit store completes.
C24_NoCrossTalk ==
    /\ []NoCrossTalk
    /\ \A i \in Slots : InFlight(i) ~> Done(i)

\* Two invocations of distinct capabilities overlapped (the second one
\* finished while the first was still waiting) and both succeeded
C24_Witness ==
    /\ Done(1) /\ Done(2)
    /\ IsEnvelope(Resp(1)) /\ IsEnvelope(Resp(2))
    /\ Resp(1).success /\ Resp(2).success
    /\ Req(1).capability /= Req(2).capability
    /\ \E j, k \in 1..Len(audit_log) :
           /\ j < k
           /\ audit_log[j] = DispatchAuditEvent(Req(2), audit_log[j].timestamp)
           /\ audit_log[k] = DispatchAuditEvent(Req(1), audit_log[k].timestamp)

\* The fields of a complete audit event
EventFields ==
    {"timestamp", "event_type", "actor", "resource", "action", "details"}

\* C25: every change of the primary log is one append: exactly one coroutine
\* completes its rpush, the log grows by one entry at its tail, that entry is
\* the whole event of that coroutine, and the earlier entries stay as they
\* were; so the log is in the order in which the appends completed.
C25_AppendsAreSerialized ==
    [][ audit_log' /= audit_log =>
            \E i \in Slots :
                /\ inv[i].pc = "rpush" /\ inv'[i].pc = "setex"
                /\ \A j \in Slots \ {i} : inv'[j] = inv[j]
                /\ audit_log' = Append(audit_log, TheValue(inv[i].event))
                /\ DOMAIN audit_log'[Len(audit_log')] = EventFields ]_vars

\* Two coroutines write concurrently: one has appended its event and waits
\* for setex while another one is still waiting for its rpush
C25_Witness ==
    /\ Len(audit_log) >= 1
    /\ \E i, j \in Slots :
           /\ inv[i].pc = "setex" /\ inv[j].pc = "rpush"
           /\ audit_log[Len(audit_log)] = TheValue(inv[i].event)
           /\ TheValue(inv[i].event) /= TheValue(inv[j].event)

\* C26: the registry changes only in the step of startup_event; no step in
\* which an invocation starts, continues or finishes changes the handler map
\* or the metadata map.
C26_InvokeLeavesRegistry ==
    [][ /\ registry' /= registry => (phase = "down" /\ phase' = "serving")
        /\ inv' /= inv =>
               /\ registry'.handlers = registry.handlers
               /\ registry'.metadata = registry.metadata ]_vars

\* Every startup capability has a handler, and invocations have been served,
\* one of them through the audit store
C26_Witness ==
    /\ registry = RegisterAll(EmptyRegistry, StartupCapabilities, 0)
    /\ \A i \in Slots : Done(i) /\ IsEnvelope(Resp(i))
    /\ \E i \in Slots : Resp(i).success
    /\ audit_log /= <<>>

\* C27: a completed setex stores its event under a key no earlier event
\* occupies, so no event of the secondary index is overwritten by another,
\* and the entry it writes carries the 30-day expiry.
C27_IndexKeysAreDistinct ==
    [][ \A i \in Slots :
            (inv[i].pc = "setex" /\ audit_index' /= audit_index
                 /\ inv'[i] /= inv[i]) =>
                /\ inv[i].event_id \notin DOMAIN audit_index
                /\ audit_index'[inv[i].event_id].ttl = AuditTTL ]_vars

\* The request's pillar differs from the one its capability is registered with
HintMismatch(req) ==
    /\ req.capability \in DOMAIN registry.metadata
    /\ req.pillar /= Some(registry.metadata[req.capability].pillar)

\* C28: every envelope, of a success or of a failure, carries the pillar of
\* its request as the request gave it (absent when the request gave none),
\* whatever pillar the capability is registered with.
C28_PillarIsEchoed ==
    \A i \in Slots :
        (Done(i) /\ IsEnvelope(Resp(i))) => Resp(i).pillar = Req(i).pillar

\* A request whose pillar is not the registered one was served successfully,
\* and a request whose handler raised was answered, each with its own pillar
C28_Witness ==
    /\ \E i \in Slots :
           /\ Done(i) /\ IsEnvelope(Resp(i)) /\ Resp(i).success
           /\ IsSet(Req(i).pillar) /\ HintMismatch(Req(i))
    /\ \E j \in Slots :
           /\ Done(j) /\ IsEnvelope(Resp(j)) /\ ~Resp(j).success
           /\ OwnOutput(Req(j)).kind = "raise"

\* data:decrypt of a tampered ciphertext in the main gateway is answered with
\* a failure envelope without result
MainRejectsTampered ==
    \A i \in Slots :
        (Done(i) /\ Req(i).capability = "data:decrypt"
             /\ Req(i).terms \in {[ciphertext |-> c] :
                                    c \in Tampered(Encrypt("PHI-123"))}) =>
            /\ IsEnvelope(Resp(i)) /\ ~Resp(i).success
            /\ Resp(i).result = None

\* data:decrypt of a tampered ciphertext in the earlier gateway is answered by
\* the failure of the decrypt handler
BackupRejectsTampered ==
    \A k \in 1..Len(exchanges) :
        (exchanges[k].req.capability = "data:decrypt"
             /\ \E c \in IssuedCiphertexts :
                    exchanges[k].req.terms.ciphertext \in Tampered(c)) =>
            NegotiateHandlerRaised(k)

\* C29: in both gateways the decryption of a ciphertext altered in one byte
\* fails as a decryption error: the decrypt handler runs and raises, and no
\* plaintext is returned.
C29_TamperingIsDetected == MainRejectsTampered /\ BackupRejectsTampered

\* C30: the handler map and the metadata map of the registry hold the same
\* names in every reachable state.
C30_MapsHoldSameNames ==
    DOMAIN registry.handlers = DOMAIN registry.metadata

\* The registry after startup, a first registration of a new name and a
\* re-registration
C30_Witness ==
    /\ phase = "serving"
    /\ Overwritten("main")
    /\ \E k \in CallsOn("main") :
           register_calls[k].by = "client" /\ ~register_calls[k].known
    /\ Cardinality(DOMAIN registry.handlers) > Len(StartupCapabilities)

\* Coroutine i completes an rpush in this step
CompletesRpush(i) == inv[i].pc = "rpush" /\ inv'[i].pc = "setex"

\* The log holds the handler's event of request req and, after it, the
\* dispatcher's CAPABILITY_INVOKE event of req
HoldsBothInOrder(req) ==
    \E j, k \in 1..Len(audit_log) :
        /\ j < k
        /\ audit_log[j] = HandlerAuditEvent(req.terms, audit_log[j].timestamp)
        /\ audit_log[k] = DispatchAuditEvent(req, audit_log[k].timestamp)

\* The steps of one audit:log invocation: its first completed append is the
\* handler's event (the handler has not returned yet), its second one is the
\* dispatcher's event (the handler has returned), it appends nothing in any
\* other step, and it turns into a success only from the dispatcher's setex
AuditLogSteps ==
    \A i \in Slots :
        (inv[i].pc /= "idle" /\ Req(i).capability = "audit:log") =>
            /\ (CompletesRpush(i) /\ ~HandlerReturned(i)) =>
                   /\ inv[i].caller = "handler"
                   /\ audit_log' = Append(audit_log,
                                          HandlerAuditEvent(Req(i).terms, now))
            /\ (CompletesRpush(i) /\ HandlerReturned(i)) =>
                   /\ inv[i].caller = "dispatcher"
                   /\ audit_log' = Append(audit_log, DispatchAuditEvent(Req(i), now))
            /\ (inv[i].pc = "setex" /\ inv'[i].pc = "rpush") =>
                   /\ inv[i].caller = "handler" /\ inv'[i].caller = "dispatcher"
                   /\ ~HandlerReturned(i) /\ IsSet(inv'[i].result)
            /\ (inv[i].pc /= "done" /\ inv'[i].pc = "done"
                    /\ TheValue(inv'[i].resp).success) =>
                   /\ inv[i].pc = "setex" /\ inv[i].caller = "dispatcher"
                   /\ audit_log' = audit_log

\* C31: a successful audit:log invocation appends exactly two events to the
\* primary log: first the handler's event built from the caller's terms, then
\* the dispatcher's CAPABILITY_INVOKE event for resource audit:log.
C31_AuditLogAppendsTwo ==
    /\ [](\A i \in Slots :
              (Done(i) /\ Req(i).capability = "audit:log"
                   /\ IsEnvelope(Resp(i)) /\ Resp(i).success) =>
                  HoldsBothInOrder(Req(i)))
    /\ [][AuditLogSteps]_vars

\* One audit:log invocation succeeded with nothing else written: the log is
\* its two events
C31_Witness ==
    /\ Len(audit_log) = 2
    /\ \E i \in Slots :
           /\ Done(i) /\ IsAuditLogExample(Req(i))
           /\ IsEnvelope(Resp(i)) /\ Resp(i).success
           /\ audit_log = << HandlerAuditEvent(Req(i).terms, 0),
                             DispatchAuditEvent(Req(i), 0) >>

\* The names startup_event registers
StartupNames ==
    {StartupCapabilities[k].name : k \in 1..Len(StartupCapabilities)}

\* C32: once startup_event has run, the six capabilities are registered
\* whether or not the store answered; the audit logger exists only with a
\* redis_pool; and a startup whose ping failed leaves both unset.
C32_StartupOutcome ==
    /\ [](/\ phase /= "down" =>
                /\ StartupNames \subseteq DOMAIN registry.handlers
                /\ Cardinality(DOMAIN registry.handlers) = 6
          /\ audit_logger => redis_pool /= "None")
    /\ [][ (phase = "down" /\ phase' = "serving") =>
               /\ ~store_up => (~audit_logger' /\ redis_pool' = "None")
               /\ store_up => (audit_logger' /\ redis_pool' = "connected") ]_vars

\* The gateway has served a request after a startup whose ping failed: no
\* audit logger, no redis_pool, six capabilities
C32_Witness ==
    /\ phase = "serving" /\ ~audit_logger /\ redis_pool = "None"
    /\ StartupNames = DOMAIN registry.handlers
    /\ \E i \in Slots : Done(i) /\ IsEnvelope(Resp(i)) /\ Resp(i).success

\* ------------------------------------------------------ the secure browser
\* What the tab handlers read and write of the window
TabState == [tabs |-> tabs, audit |-> browser_audit, last_activity |-> last_activity]

\* Variant of _add_new_tab whose limit test lets one tab more through
add_new_tab_PastLimit(w, t) ==
    IF w.tabs > MAX_TABS
    THEN w
    ELSE [tabs |-> w.tabs + 1,
          audit |-> Append(w.audit, BrowserAuditRow("TAB_OPENED", "")),
          last_activity |-> t]

\* _add_new_tab at time t: refused at the limit (a warning, then return),
\* else the tab is added, TAB_OPENED is logged and the activity updated
add_new_tab(w, t) ==
    IF w.tabs >= MAX_TABS
    THEN w
    ELSE [tabs |-> w.tabs + 1,
          audit |-> Append(w.audit, BrowserAuditRow("TAB_OPENED", "")),
          last_activity |-> t]

\* _close_tab at time t: refused on the last tab, else the tab is removed,
\* TAB_CLOSED is logged and the activity updated
close_tab(w, index, t) ==
    IF w.tabs <= 1
    THEN w
    ELSE [tabs |-> w.tabs - 1,
          audit |-> Append(w.audit, BrowserAuditRow("TAB_CLOSED", "")),
          last_activity |-> t]

\* The tab handlers write the window back
SetTabState(w) ==
    /\ tabs' = w.tabs
    /\ browser_audit' = w.audit
    /\ last_activity' = w.last_activity

\* "New Tab" (button or Ctrl+T)
AddNewTab ==
    /\ window = "open"
    /\ Len(browser_audit) < MaxBrowserEvents
    /\ SetTabState(add_new_tab(TabState, wall_clock))
    /\ UNCHANGED <<window, wall_clock, whitelistVars, organismVars,
                   gatewayVars>>

\* tabCloseRequested(index) or Ctrl+W on the current index
CloseTab(index) ==
    /\ window = "open"
    /\ Len(browser_audit) < MaxBrowserEvents
    /\ SetTabState(close_tab(TabState, index, wall_clock))
    /\ UNCHANGED <<window, wall_clock, whitelistVars, organismVars,
                   gatewayVars>>

\* _update_activity
UpdateActivity == last_activity' = wall_clock

\* _on_tab_changed(index): the user switches to tab index
TabChanged(index) ==
    /\ window = "open"
    /\ index \in 0..(tabs - 1)
    /\ UpdateActivity
    /\ UNCHANGED <<window, tabs, wall_clock, browser_audit, whitelistVars,
                   organismVars, gatewayVars>>

\* _on_browser_url_changed: a page of the window changes its URL
BrowserUrlChanged ==
    /\ window = "open"
    /\ UpdateActivity
    /\ UNCHANGED <<window, tabs, wall_clock, browser_audit, whitelistVars,
                   organismVars, gatewayVars>>

\* What the address bar may hold when Return is pressed
AddressBarTexts == {"", "  ", "who.int", "https://evil.com/"}

\* str.strip() of the texts above
strip(text) == IF text = "  " THEN "" ELSE text

\* _navigate_to_url: nothing on an empty address bar
NavigateToUrl(text) ==
    /\ window = "open"
    /\ IF strip(text) = "" THEN UNCHANGED last_activity ELSE UpdateActivity
    /\ UNCHANGED <<window, tabs, wall_clock, browser_audit, whitelistVars,
                   organismVars, gatewayVars>>

\* What _check_session_timeout and closeEvent read and write of the window
SessionState ==
    [window |-> window, audit |-> browser_audit, last_activity |-> last_activity]

\* closeEvent: SESSION_END is logged and the event accepted
closeEvent(s) ==
    [s EXCEPT !.audit = Append(@, BrowserAuditRow("SESSION_END", "Browser closed")),
              !.window = "closed"]

\* Variant of _check_session_timeout that fires at SESSION_TIMEOUT minutes
check_session_timeout_AtLimit(s, t) ==
    IF t - s.last_activity >= SESSION_TIMEOUT
    THEN closeEvent([s EXCEPT !.audit =
                         Append(@, BrowserAuditRow("SESSION_TIMEOUT",
                                                   "Automatic logout"))])
    ELSE s

\* _check_session_timeout at time t: past the limit SESSION_TIMEOUT is
\* logged, the "Session Timeout" box is shown and answered, and self.close()
\* runs closeEvent
check_session_timeout(s, t) ==
    IF t - s.last_activity > SESSION_TIMEOUT
    THEN closeEvent([s EXCEPT !.audit =
                         Append(@, BrowserAuditRow("SESSION_TIMEOUT",
                                                   "Automatic logout"))])
    ELSE s

SetSessionState(s) ==
    /\ window' = s.window
    /\ browser_audit' = s.audit
    /\ last_activity' = s.last_activity

\* timeout_timer fires
CheckSessionTimeout ==
    /\ window = "open"
    /\ SetSessionState(check_session_timeout(SessionState, wall_clock))
    /\ UNCHANGED <<tabs, wall_clock, whitelistVars, organismVars, gatewayVars>>

\* The user closes the window
CloseWindow ==
    /\ window = "open"
    /\ SetSessionState(closeEvent(SessionState))
    /\ UNCHANGED <<tabs, wall_clock, whitelistVars, organismVars, gatewayVars>>

\* Minutes pass: one (the period of timeout_timer) or SESSION_TIMEOUT at once
Elapse(minutes) ==
    /\ window = "open"
    /\ wall_clock + minutes <= MaxBrowserClock
    /\ wall_clock' = wall_clock + minutes
    /\ UNCHANGED <<window, tabs, last_activity, browser_audit,
                   whitelistVars, organismVars, gatewayVars>>

NextBrowser ==
    \/ AddNewTab
    \/ \E index \in 0..(MAX_TABS - 1) : index < tabs /\ CloseTab(index)
    \/ \E index \in 0..(MAX_TABS - 1) : TabChanged(index)
    \/ BrowserUrlChanged
    \/ \E text \in AddressBarTexts : NavigateToUrl(text)
    \/ CheckSessionTimeout
    \/ CloseWindow
    \/ \E minutes \in {1, SESSION_TIMEOUT} : Elapse(minutes)

\* One session of the secure browser
SpecBrowser == Init /\ [][NextBrowser]_vars

\* ------------------------------------------ the whitelist and the requests
\* What the user may type into "Add Domain", and the entries the user may
\* select for removal when the list holds them
DomainTexts == {"evil.com", "localhost:3002", "https://icd.who.int/browse", "who.int"}
Selectable == {"evil.com", "localhost", "icd.who.int", "who.int"}

\* The URLs a page of the browser may request
Urls ==
    {"http://localhost:3002/", "https://localhost/dashboard",
     "https://icd.who.int/browse11", "https://www.who.int/", "https://evil.com/"}

\* The WHITELIST_ADD and WHITELIST_REMOVE rows logged so far
WhitelistEdits ==
    Cardinality({k \in 1..Len(browser_audit) :
                    browser_audit[k].event_type
                        \in {"WHITELIST_ADD", "WHITELIST_REMOVE"}})

\* _add_domain: the normalised name is appended unless the list holds it
AddDomain(text) ==
    /\ window = "open"
    /\ WhitelistEdits < MaxWhitelistEdits
    /\ text /= ""
    /\ LET domain == NormalizeDomain(text)
       IN  IF ~InList(allowed_domains, domain)
           THEN /\ allowed_domains' = Append(allowed_domains, domain)
                /\ browser_audit' = Append(browser_audit,
                                           BrowserAuditRow("WHITELIST_ADD", domain))
                /\ removed' = removed \ {domain}
           ELSE UNCHANGED <<allowed_domains, browser_audit, removed>>
    /\ UNCHANGED <<sessionVars, blocked_count, allowed_count, organismVars,
                   gatewayVars>>

\* _remove_domain on the selected entry
RemoveDomain(domain) ==
    /\ window = "open"
    /\ WhitelistEdits < MaxWhitelistEdits
    /\ InList(allowed_domains, domain)
    /\ allowed_domains' = ListRemove(allowed_domains, domain)
    /\ browser_audit' = Append(browser_audit,
                               BrowserAuditRow("WHITELIST_REMOVE", domain))
    /\ removed' = removed \cup {domain}
    /\ UNCHANGED <<sessionVars, blocked_count, allowed_count, organismVars,
                   gatewayVars>>

\* The interceptor's counters after interceptRequest on url
Count(url) ==
    IF interceptRequest(url, allowed_domains).block
    THEN blocked_count' = blocked_count + 1 /\ UNCHANGED allowed_count
    ELSE allowed_count' = allowed_count + 1 /\ UNCHANGED blocked_count

\* A request of a page (a resource, a frame) reaches the interceptor
InterceptRequest(url) ==
    /\ window = "open"
    /\ blocked_count + allowed_count < MaxRequests
    /\ Count(url)
    /\ UNCHANGED <<sessionVars, browser_audit, allowed_domains, removed,
                   organismVars, gatewayVars>>

\* A navigation: the page decides first, and only a navigation it accepts
\* becomes a request the interceptor sees
NavigationRequest(url, is_main_frame) ==
    /\ window = "open"
    /\ blocked_count + allowed_count < MaxRequests
    /\ IF acceptNavigationRequest(url, is_main_frame, allowed_domains)
       THEN Count(url)
       ELSE UNCHANGED <<blocked_count, allowed_count>>
    /\ UNCHANGED <<sessionVars, browser_audit, allowed_domains, removed,
                   organismVars, gatewayVars>>

NextWhitelist ==
    \/ \E text \in DomainTexts : AddDomain(text)
    \/ \E domain \in Selectable : RemoveDomain(domain)
    \/ \E url \in Urls : InterceptRequest(url)
    \/ \E url \in Urls, is_main_frame \in BOOLEAN :
           NavigationRequest(url, is_main_frame)

\* The browser under whitelist edits and page requests
SpecWhitelist == Init /\ [][NextWhitelist]_vars

\* ----------------------------------------------------- the living organism
\* The ZFPLivingOrganism object
Organism ==
    [registry |-> organism_registry, alert_triggered |-> alert_triggered,
     security_lockdown |-> security_lockdown, incidents |-> incidents]

SetOrganism(o) ==
    /\ organism_registry' = o.registry
    /\ alert_triggered' = o.alert_triggered
    /\ security_lockdown' = o.security_lockdown
    /\ incidents' = o.incidents

\* register_file_with_swarm: the checksum of a missing file cannot be taken
\* (open raises), and nothing is registered
RegisterFile(file_path, swarm_id) ==
    /\ IF disk[file_path] = {}
       THEN UNCHANGED organism_registry
       ELSE organism_registry' =
                OrganismDictSet(organism_registry, swarm_id,
                                BodyPart(swarm_id, file_path,
                                         TheValue(disk[file_path])))
    /\ UNCHANGED <<disk, alert_triggered, security_lockdown, issues, incidents,
                   browserVars, gatewayVars>>

\* Somebody writes a guarded file, or deletes it
WriteFile(file_path, content) ==
    /\ disk' = [disk EXCEPT ![file_path] = Some(content)]
    /\ UNCHANGED <<organism_registry, alert_triggered, security_lockdown, issues,
                   incidents, browserVars, gatewayVars>>

RemoveFile(file_path) ==
    /\ disk[file_path] /= {}
    /\ disk' = [disk EXCEPT ![file_path] = {}]
    /\ UNCHANGED <<organism_registry, alert_triggered, security_lockdown, issues,
                   incidents, browserVars, gatewayVars>>

\* One round of continuous_health_monitoring: verify_body_integrity
VerifyBodyIntegrity ==
    /\ Len(incidents) < MaxIncidents
    /\ LET examined == verify_body_integrity(Organism, disk)
       IN  /\ SetOrganism(examined.self)
           /\ issues' = Some(examined.issues)
    /\ UNCHANGED <<disk, browserVars, gatewayVars>>

NextOrganism ==
    \/ \E file_path \in Files, swarm_id \in SwarmIds :
           RegisterFile(file_path, swarm_id)
    \/ \E file_path \in Files, content \in Contents : WriteFile(file_path, content)
    \/ \E file_path \in Files : RemoveFile(file_path)
    \/ VerifyBodyIntegrity

\* The organism guarding files that others write and delete
SpecOrganism == Init /\ [][NextOrganism]_vars

\* ------------------------------------------------------------ C33 .. C38
\* The types of the rows of the browser's audit table, in order
AuditTypes == [k \in 1..Len(browser_audit) |-> browser_audit[k].event_type]

\* This step wrote a row of one of the given types
Wrote(types) ==
    /\ Len(browser_audit') = Len(browser_audit) + 1
    /\ browser_audit'[Len(browser_audit')].event_type \in types

\* C33: once the first tab is there the number of open tabs stays between 1
\* and MAX_TABS under any sequence of _add_new_tab and _close_tab; an add
\* refused at the limit and a close refused on the last tab change nothing,
\* and a TAB_OPENED (TAB_CLOSED) row is written only by a step that opens
\* (closes) a tab
C33_TabCountBounded ==
    /\ [](/\ 1 <= tabs /\ tabs <= MAX_TABS
          /\ tabs >= MAX_TABS => add_new_tab(TabState, wall_clock) = TabState
          /\ tabs <= 1 =>
                \A index \in 0..(MAX_TABS - 1) :
                    close_tab(TabState, index, wall_clock) = TabState)
    /\ [][/\ Wrote({"TAB_OPENED"}) <=> tabs' = tabs + 1
          /\ Wrote({"TAB_CLOSED"}) <=> tabs' = tabs - 1
          /\ tabs' \in {tabs - 1, tabs, tabs + 1}]_vars

\* The window holds MAX_TABS tabs after tabs were opened and closed, and an
\* add now, later than the last activity, is refused
C33_Witness ==
    /\ tabs = MAX_TABS
    /\ \E k \in 1..Len(browser_audit) : browser_audit[k].event_type = "TAB_CLOSED"
    /\ last_activity < wall_clock
    /\ window = "open"
    /\ add_new_tab(TabState, wall_clock) = TabState

\* C34: for every URL and every whitelist, acceptNavigationRequest on the
\* main frame accepts exactly the URLs interceptRequest does not block, URLs
\* with an explicit port included
C34_SameDecision ==
    \A url \in Urls :
        acceptNavigationRequest(url, TRUE, allowed_domains)
            = ~interceptRequest(url, allowed_domains).block

\* C35: a domain removed from the whitelist and not added again is blocked by
\* the interceptor, whatever whitelist the edits have led to
C35_RemovedIsBlocked ==
    \A domain \in removed :
        interceptRequest("https://" \o domain \o "/", allowed_domains).block

\* The rows a timed-out session ends with
TimeoutRows ==
    << BrowserAuditRow("SESSION_TIMEOUT", "Automatic logout"),
       BrowserAuditRow("SESSION_END", "Browser closed") >>

\* A step of a handler that counts as activity: a tab opened or closed, a tab
\* switched to, a URL changed, a navigation from a non-empty address bar
ActivityStep ==
    \/ Wrote({"TAB_OPENED", "TAB_CLOSED"})
    \/ \E index \in 0..(MAX_TABS - 1) : TabChanged(index)
    \/ BrowserUrlChanged
    \/ \E text \in AddressBarTexts : strip(text) /= "" /\ NavigateToUrl(text)

Occurrences(list, swarm_id) ==
    Cardinality({k \in 1..Len(list) : list[k] = swarm_id})

\* The file of a registry entry is missing; it is there with other bytes
Missing(info) == disk[info.file_path] = {}
Modified(info) ==
    /\ ~Missing(info)
    /\ calculate_file_checksum(TheValue(disk[info.file_path])) /= info.checksum

\* C36: verify_body_integrity puts every registry entry in exactly one of
\* amputations (file missing), infections (checksum differs) and healthy;
\* when an entry is an amputation or an infection the alarm leaves
\* alert_triggered and security_lockdown both true; neither flag is ever
\* reset; and security_lockdown implies alert_triggered in every state
C36_BodyIntegrity ==
    /\ [](LET examined == verify_body_integrity(Organism, disk)
              found == examined.issues
          IN  /\ \A k \in 1..Len(organism_registry) :
                    LET info == organism_registry[k]
                    IN  /\ Occurrences(found.amputations, info.swarm_id)
                              = IF Missing(info) THEN 1 ELSE 0
                        /\ Occurrences(found.infections, info.swarm_id)
                              = IF Modified(info) THEN 1 ELSE 0
                        /\ Occurrences(found.healthy, info.swarm_id)
                              = IF Missing(info) \/ Modified(info) THEN 0 ELSE 1
              /\ Len(found.amputations) + Len(found.infections) + Len(found.healthy)
                    = Len(organism_registry)
              /\ (found.amputations /= <<>> \/ found.infections /= <<>>) =>
                    /\ examined.self.alert_triggered
                    /\ examined.self.security_lockdown
              /\ security_lockdown => alert_triggered)
    /\ [][/\ alert_triggered => alert_triggered'
          /\ security_lockdown => security_lockdown'
          /\ issues' /= issues =>
                issues' = Some(verify_body_integrity(Organism, disk).issues)]_vars

\* An examination found one file missing and another modified and raised the
\* alarm; both files are back as registered, and the flags still stand
C36_Witness ==
    /\ issues /= None
    /\ Len(TheValue(issues).amputations) = 1
    /\ Len(TheValue(issues).infections) = 1
    /\ alert_triggered /\ security_lockdown
    /\ Len(incidents) = 2
    /\ \A k \in 1..Len(organism_registry) :
          ~Missing(organism_registry[k]) /\ ~Modified(organism_registry[k])

\* C37: after verify_body_integrity, get_status_report counts in
\* healthy_parts exactly the registry entries the examination found healthy
C37_HealthyPartsFollowExamination ==
    LET examined == verify_body_integrity(Organism, disk)
    IN  get_status_report(examined.self).healthy_parts
            = Len(examined.issues.healthy)

====
